---- MODULE Spec2Model ----
(***************************************************************************)
(* Publish/subscribe protocol over CAN (src/src/CANPubSub.cpp): the broker *)
(* (registry, subscription table, stored subscriptions, persisted store),  *)
(* the client session, the frame codec and the extended-frame reassembler. *)
(*                                                                         *)
(* Strings are sequences of bytes.  A CAN frame is a record                *)
(*   [ext |-> BOOLEAN, id |-> Nat, data |-> Seq(Byte)].                    *)
(* Every handler is an operator from a broker (or client) record to the    *)
(* record after the handler returned; the actions apply one handler to the *)
(* variables.  Arrays that the code guards with a count are sequences of   *)
(* that length.                                                            *)
(***************************************************************************)
EXTENDS Integers, Sequences, FiniteSets, TLC

\* ------------------------------------------------------------------------
\* Program constants (CANPubSub.h)
\* ------------------------------------------------------------------------
CAN_PS_SUBSCRIBE == 1
CAN_PS_UNSUBSCRIBE == 2
CAN_PS_PUBLISH == 3
CAN_PS_TOPIC_DATA == 4
CAN_PS_DIRECT_MSG == 5
CAN_PS_PING == 6
CAN_PS_PONG == 7
CAN_PS_ACK == 8
CAN_PS_PEER_MSG == 9
CAN_PS_SUB_RESTORE == 10
CAN_PS_ID_RESPONSE == 254
CAN_PS_ID_REQUEST == 255
CAN_PS_BROKER_ID == 0
CAN_PS_UNASSIGNED_ID == 255
MAX_SUBSCRIPTIONS == 20
MAX_SUBSCRIBERS_PER_TOPIC == 10
MAX_CLIENT_TOPICS == 10
MAX_CLIENT_MAPPINGS == 50
MAX_SERIAL_LENGTH == 32
MAX_STORED_SUBS_PER_CLIENT == 10
MAX_STORED_TOPIC_NAMES == 20
CAN_FRAME_DATA_SIZE == 8
MAX_EXTENDED_MSG_SIZE == 128
FIRST_TEMP_ID == 101
DEFAULT_PING_INTERVAL == 5000
DEFAULT_MAX_MISSED_PINGS == 2
MAX_PING_INTERVAL == 3600000

\* ------------------------------------------------------------------------
\* Bounds of the model
\* ------------------------------------------------------------------------
\* anonymous ID assignments explored after each begin()
MaxTempAssign == 1

\* registry entries created in the runs about serials
MaxRegistry == 3

\* frames the broker may still have to read when the client sends more
MaxUpBacklog == 0

\* frames the client may still have to read when it sends more
MaxBusBacklog == 1

\* subscribe() is called while the local list is shorter than this
MaxLocalList == 2

\* ping waves explored without a frame from a client: no ping state counts
\* more missed pings than this
MaxMissed == 3

\* frames of the two interleaved senders that are lost, and that arrive twice
MaxLost == 1

MaxRepeated == 1

\* anonymous ID requests explored when two clients share the bus
MaxPairAssign == 2

\* ------------------------------------------------------------------------
\* Generic helpers
\* ------------------------------------------------------------------------
Min(a, b) == IF a < b THEN a ELSE b

Range(s) == {s[i] : i \in 1..Len(s)}

Take(s, n) == SubSeq(s, 1, Min(n, Len(s)))

Drop(s, n) == SubSeq(s, n + 1, Len(s))

\* s without its k-th element (the "shift remaining" loops of the code)
RemoveAt(s, k) == SubSeq(s, 1, k - 1) \o SubSeq(s, k + 1, Len(s))

\* index of the first TRUE of hits (one flag per element), 0 when there is
\* none
\* (the code's linear searches returning -1)
FirstIndex(hits) ==
  IF \E i \in 1..Len(hits) : hits[i]
  THEN CHOOSE i \in 1..Len(hits) : hits[i] /\ \A j \in 1..(i - 1) : ~hits[j]
  ELSE 0

RECURSIVE HashFrom(_, _, _)
HashFrom(h, topic, i) ==
  IF i > Len(topic) THEN h
  ELSE HashFrom((h * 31 + topic[i]) % 65536, topic, i + 1)

\* uint16_t hash = 0; hash = hash * 31 + c
hashTopic(topic) == HashFrom(0, topic, 1)

HashHi(h) == h \div 256

HashLo(h) == h % 256

\* (hi << 8) | lo as read from two payload bytes
HashOf(hi, lo) == hi * 256 + lo

HexDigit(d) == IF d < 10 THEN 48 + d ELSE 87 + d

RECURSIVE HexString(_)
HexString(n) ==
  IF n < 16 THEN <<HexDigit(n)>>
  ELSE HexString(n \div 16) \o <<HexDigit(n % 16)>>

\* String("0x") + String(hash, HEX)
HexName(hash) == <<48, 120>> \o HexString(hash)

\* ------------------------------------------------------------------------
\* Frame codec
\* ------------------------------------------------------------------------
\* beginPacket(msgType); write(data); endPacket()
StdFrame(msgType, data) == [ext |-> FALSE, id |-> msgType, data |-> data]

\* (msgType << 21) | (frame << 13) | totalFrames
ExtId(msgType, frame, totalFrames) ==
  msgType * 2097152 + frame * 8192 + totalFrames

RECURSIVE ExtFrames(_, _, _, _)
ExtFrames(msgType, data, frame, totalFrames) ==
  IF frame >= totalFrames THEN <<>>
  ELSE LET from == frame * CAN_FRAME_DATA_SIZE
           frameSize == Min(CAN_FRAME_DATA_SIZE, Len(data) - from)
       IN <<[ext |-> TRUE,
             id |-> ExtId(msgType, frame, totalFrames),
             data |-> SubSeq(data, from + 1, from + frameSize)]>>
          \o ExtFrames(msgType, data, frame + 1, totalFrames)

\* sendExtendedMessage with the frame count rounded down
sendExtendedMessageRoundedDown(msgType, data) ==
  IF Len(data) <= CAN_FRAME_DATA_SIZE
  THEN <<StdFrame(msgType, data)>>
  ELSE ExtFrames(msgType, data, 0,
         (Len(data) \div CAN_FRAME_DATA_SIZE) % 256)

\* the frames one call puts on the bus, in order
sendExtendedMessage(msgType, data) ==
  IF Len(data) <= CAN_FRAME_DATA_SIZE
  THEN <<StdFrame(msgType, data)>>
  ELSE ExtFrames(msgType, data, 0,
         ((Len(data) + CAN_FRAME_DATA_SIZE - 1) \div CAN_FRAME_DATA_SIZE) % 256)

\* the senders' pattern "if (totalSize > 8) sendExtendedMessage(...,
\* min(len, 128)) else standard packet"
SendMessage(msgType, data) ==
  sendExtendedMessage(msgType, Take(data, MAX_EXTENDED_MSG_SIZE))

EmptyExtBuffer ==
  [msgType |-> 0, senderId |-> 0, buffer |-> <<>>, active |-> FALSE]

\* msgType and frameSeq of an extended ID
FrameType(frame) == (frame.id \div 2097152) % 256

FrameSeq(frame) == (frame.id \div 8192) % 256

\* processExtendedFrame that resets the buffer when the frame's type is not
\* the buffer's
processExtendedFrameDiscarding(buf, frame, timedOut) ==
  LET msgType == (frame.id \div 2097152) % 256
      frameSeq == (frame.id \div 8192) % 256
      totalFrames == (frame.id % 8192) % 256
      b0 == IF buf.active /\ timedOut THEN EmptyExtBuffer ELSE buf
      first == frameSeq = 0
      b1 == IF first
            THEN [msgType |-> msgType,
                  senderId |-> IF Len(frame.data) > 0 THEN frame.data[1] ELSE 0,
                  buffer |-> <<>>, active |-> TRUE]
            ELSE b0
      rest == IF first /\ Len(frame.data) > 0 THEN Tail(frame.data)
              ELSE frame.data
  IN IF ~b1.active \/ b1.msgType # msgType
     THEN [buf |-> EmptyExtBuffer, done |-> FALSE, msgType |-> 0,
           senderId |-> 0, data |-> <<>>]
     ELSE LET room == MAX_EXTENDED_MSG_SIZE - Len(b1.buffer)
              b2 == [b1 EXCEPT !.buffer = @ \o Take(rest, room)]
          IN IF frameSeq = totalFrames - 1
             THEN [buf |-> EmptyExtBuffer, done |-> TRUE,
                   msgType |-> b2.msgType, senderId |-> b2.senderId,
                   data |-> b2.buffer]
             ELSE [buf |-> b2, done |-> FALSE, msgType |-> 0, senderId |-> 0,
                   data |-> <<>>]

\* processExtendedFrame without the timeout check
processExtendedFrameNoTimeout(buf, frame, timedOut) ==
  LET msgType == (frame.id \div 2097152) % 256
      frameSeq == (frame.id \div 8192) % 256
      totalFrames == (frame.id % 8192) % 256
      first == frameSeq = 0
      b1 == IF first
            THEN [msgType |-> msgType,
                  senderId |-> IF Len(frame.data) > 0 THEN frame.data[1] ELSE 0,
                  buffer |-> <<>>, active |-> TRUE]
            ELSE buf
      rest == IF first /\ Len(frame.data) > 0 THEN Tail(frame.data)
              ELSE frame.data
  IN IF ~b1.active \/ b1.msgType # msgType
     THEN [buf |-> b1, done |-> FALSE, msgType |-> 0, senderId |-> 0,
           data |-> <<>>]
     ELSE LET room == MAX_EXTENDED_MSG_SIZE - Len(b1.buffer)
              b2 == [b1 EXCEPT !.buffer = @ \o Take(rest, room)]
          IN IF frameSeq = totalFrames - 1
             THEN [buf |-> EmptyExtBuffer, done |-> TRUE,
                   msgType |-> b2.msgType, senderId |-> b2.senderId,
                   data |-> b2.buffer]
             ELSE [buf |-> b2, done |-> FALSE, msgType |-> 0, senderId |-> 0,
                   data |-> <<>>]

\* One extended frame through the reassembler.  timedOut: more than
\* EXTENDED_MSG_TIMEOUT ms since the last frame of the active buffer.
\* Result: the buffer afterwards and, when the frame completed a message,
\* the arguments of onExtendedMessageComplete.
processExtendedFrame(buf, frame, timedOut) ==
  LET msgType == (frame.id \div 2097152) % 256
      frameSeq == (frame.id \div 8192) % 256
      totalFrames == (frame.id % 8192) % 256
      b0 == IF buf.active /\ timedOut THEN EmptyExtBuffer ELSE buf
      first == frameSeq = 0
      b1 == IF first
            THEN [msgType |-> msgType,
                  senderId |-> IF Len(frame.data) > 0 THEN frame.data[1] ELSE 0,
                  buffer |-> <<>>, active |-> TRUE]
            ELSE b0
      rest == IF first /\ Len(frame.data) > 0 THEN Tail(frame.data)
              ELSE frame.data
  IN IF ~b1.active \/ b1.msgType # msgType
     THEN [buf |-> b1, done |-> FALSE, msgType |-> 0, senderId |-> 0,
           data |-> <<>>]
     ELSE LET room == MAX_EXTENDED_MSG_SIZE - Len(b1.buffer)
              b2 == [b1 EXCEPT !.buffer = @ \o Take(rest, room)]
          IN IF frameSeq = totalFrames - 1
             THEN [buf |-> EmptyExtBuffer, done |-> TRUE,
                   msgType |-> b2.msgType, senderId |-> b2.senderId,
                   data |-> b2.buffer]
             ELSE [buf |-> b2, done |-> FALSE, msgType |-> 0, senderId |-> 0,
                   data |-> <<>>]

\* ------------------------------------------------------------------------
\* Persisted key/value store (Preferences on ESP32, EEPROM elsewhere).
\* A namespace whose magic is missing is "not valid"; its other keys are
\* then never read.
\* ------------------------------------------------------------------------
EmptyStore ==
  [reg |-> [valid |-> FALSE, count |-> 0, nextID |-> 1, maps |-> <<>>],
   subs |-> [valid |-> FALSE, subs |-> <<>>],
   topics |-> [valid |-> FALSE, names |-> <<>>],
   ping |-> [written |-> FALSE, enabled |-> FALSE,
             interval |-> DEFAULT_PING_INTERVAL,
             maxMissed |-> DEFAULT_MAX_MISSED_PINGS]]

\* ------------------------------------------------------------------------
\* Broker: state after the constructor
\* ------------------------------------------------------------------------
BrokerConstructed(st) ==
  [subscriptions |-> <<>>,
   nextClientID |-> 1,
   nextTempID |-> FIRST_TEMP_ID,
   connectedClients |-> <<>>,
   clientMappings |-> <<>>,
   storedSubscriptions |-> <<>>,
   storedTopicNames |-> <<>>,
   storedTopicCount |-> 0,
   topicMappings |-> <<>>,
   extBuffer |-> EmptyExtBuffer,
   pingStates |-> <<>>,
   pingInterval |-> DEFAULT_PING_INTERVAL,
   autoPingEnabled |-> FALSE,
   maxMissedPings |-> DEFAULT_MAX_MISSED_PINGS,
   store |-> st,
   tx |-> <<>>,
   calls |-> <<>>]

\* _can->beginPacket ... endPacket / sendExtendedMessage: frames put on the bus
Emit(b, frames) == [b EXCEPT !.tx = @ \o frames]

\* a user callback (onClientConnect, onClientDisconnect, onPublish,
\* onDirectMessage) invoked with these arguments
Call(b, cb, id, arg) ==
  [b EXCEPT !.calls = Append(@, [cb |-> cb, id |-> id, arg |-> arg])]

\* ------------------------------------------------------------------------
\* Topic-name cache (CANPubSubBase) and stored topic names
\* ------------------------------------------------------------------------
registerTopic(mappings, topic) ==
  LET hash == hashTopic(topic)
  IN IF \E i \in 1..Len(mappings) : mappings[i].hash = hash THEN mappings
     ELSE IF Len(mappings) < MAX_SUBSCRIPTIONS
          THEN Append(mappings, [hash |-> hash, name |-> topic])
          ELSE mappings

getTopicName(mappings, hash) ==
  LET IsHash(m) == m.hash = hash
      i == FirstIndex([ix \in 1..Len(mappings) |-> IsHash(mappings[ix])])
  IN IF i > 0 THEN mappings[i].name ELSE HexName(hash)

\* strncpy(dst, src, MAX_SERIAL_LENGTH - 1) of setSerial / setName
setSerial(serial) == Take(serial, MAX_SERIAL_LENGTH - 1)

ZeroTopicSlot == [hash |-> 0, name |-> <<>>, active |-> FALSE]

\* slot i (1-based) of the fixed array; slots past the materialised prefix
\* are still zeroed
TopicSlot(b, i) ==
  IF i <= Len(b.storedTopicNames) THEN b.storedTopicNames[i] ELSE ZeroTopicSlot

SetTopicSlot(slots, i, v) ==
  [k \in 1..(IF i > Len(slots) THEN i ELSE Len(slots)) |->
     IF k = i THEN v ELSE IF k <= Len(slots) THEN slots[k] ELSE ZeroTopicSlot]

findStoredTopicName(b, hash) ==
  IF \E i \in 1..b.storedTopicCount :
        TopicSlot(b, i).active /\ TopicSlot(b, i).hash = hash
  THEN CHOOSE i \in 1..b.storedTopicCount :
         /\ TopicSlot(b, i).active /\ TopicSlot(b, i).hash = hash
         /\ \A j \in 1..(i - 1) :
              ~(TopicSlot(b, j).active /\ TopicSlot(b, j).hash = hash)
  ELSE 0

saveTopicNamesToStorage(b) ==
  [b EXCEPT !.store.topics =
     [valid |-> TRUE,
      names |-> [i \in 1..b.storedTopicCount |-> TopicSlot(b, i)]]]

storeTopicName(b, hash, name) ==
  LET index == findStoredTopicName(b, hash)
      entry == [hash |-> hash, name |-> setSerial(name), active |-> TRUE]
  IN IF index > 0
     THEN saveTopicNamesToStorage(
            [b EXCEPT !.storedTopicNames = SetTopicSlot(@, index, entry)])
     ELSE IF \E i \in 1..MAX_STORED_TOPIC_NAMES : ~TopicSlot(b, i).active
          THEN LET i == CHOOSE k \in 1..MAX_STORED_TOPIC_NAMES :
                          /\ ~TopicSlot(b, k).active
                          /\ \A j \in 1..(k - 1) : TopicSlot(b, j).active
               IN saveTopicNamesToStorage(
                    [b EXCEPT !.storedTopicNames = SetTopicSlot(@, i, entry),
                              !.storedTopicCount = IF i > @ THEN i ELSE @])
          ELSE saveTopicNamesToStorage(b)

getStoredTopicName(b, hash) ==
  LET index == findStoredTopicName(b, hash)
  IN IF index > 0 THEN TopicSlot(b, index).name ELSE HexName(hash)

RECURSIVE RegisterLoaded(_, _, _)
RegisterLoaded(mappings, names, i) ==
  IF i > Len(names) THEN mappings
  ELSE RegisterLoaded(
         IF names[i].active THEN registerTopic(mappings, names[i].name)
         ELSE mappings, names, i + 1)

loadTopicNamesFromStorage(b) ==
  IF ~b.store.topics.valid THEN b
  ELSE LET names == b.store.topics.names
       IN IF Len(names) > MAX_STORED_TOPIC_NAMES
          THEN [b EXCEPT !.storedTopicCount = 0]
          ELSE [b EXCEPT
                 !.storedTopicCount = Len(names),
                 !.storedTopicNames =
                    [k \in 1..(IF Len(names) > Len(@) THEN Len(names) ELSE Len(@))
                       |-> IF k <= Len(names) THEN names[k] ELSE @[k]],
                 !.topicMappings = RegisterLoaded(@, names, 1)]

\* the names learned in memory (_topicMappings) stay
clearStoredTopicNames(b) ==
  [b EXCEPT !.storedTopicCount = 0,
            !.storedTopicNames = <<>>,
            !.store.topics = [valid |-> FALSE, names |-> <<>>]]

\* ------------------------------------------------------------------------
\* Registry persistence
\* ------------------------------------------------------------------------
saveMappingsToStorage(b) ==
  [b EXCEPT !.store.reg =
     [valid |-> TRUE, count |-> Len(b.clientMappings),
      nextID |-> b.nextClientID, maps |-> b.clientMappings]]

loadMappingsFromStorage(b) ==
  IF ~b.store.reg.valid THEN b
  ELSE IF b.store.reg.count > MAX_CLIENT_MAPPINGS
       THEN [b EXCEPT !.nextClientID = b.store.reg.nextID,
                      !.clientMappings = <<>>]
       ELSE [b EXCEPT !.nextClientID = b.store.reg.nextID,
                      !.clientMappings = b.store.reg.maps]

\* esp32: _preferences.clear() drops every key of the namespace;
\* otherwise only the registry's magic is zeroed
clearStoredMappings(b, esp32) ==
  [b EXCEPT !.clientMappings = <<>>,
            !.nextClientID = 1,
            !.store = IF esp32 THEN EmptyStore
                      ELSE [@ EXCEPT !.reg.valid = FALSE]]

findClientMapping(b, serialNumber) ==
  LET IsSerial(m) == m.serialNumber = serialNumber
  IN FirstIndex([ix \in 1..Len(b.clientMappings) |-> IsSerial(b.clientMappings[ix])])

findClientMappingById(b, clientId) ==
  LET IsId(m) == m.clientId = clientId
  IN FirstIndex([ix \in 1..Len(b.clientMappings) |-> IsId(b.clientMappings[ix])])

\* ------------------------------------------------------------------------
\* Stored subscriptions
\* ------------------------------------------------------------------------
findStoredSubscription(b, clientId) ==
  LET IsId(e) == e.clientId = clientId
  IN FirstIndex([ix \in 1..Len(b.storedSubscriptions) |-> IsId(b.storedSubscriptions[ix])])

saveSubscriptionsToStorage(b) ==
  [b EXCEPT !.store.subs = [valid |-> TRUE, subs |-> b.storedSubscriptions]]

loadSubscriptionsFromStorage(b) ==
  IF ~b.store.subs.valid THEN b
  ELSE IF Len(b.store.subs.subs) > MAX_CLIENT_MAPPINGS
       THEN [b EXCEPT !.storedSubscriptions = <<>>]
       ELSE [b EXCEPT !.storedSubscriptions = b.store.subs.subs]

clearStoredSubscriptions(b) ==
  [b EXCEPT !.storedSubscriptions = <<>>,
            !.store.subs = [valid |-> FALSE, subs |-> <<>>]]

\* the topics of the rows that list clientId, in table order
RECURSIVE TopicsOf(_, _, _)
TopicsOf(subs, clientId, i) ==
  IF i > Len(subs) THEN <<>>
  ELSE (IF clientId \in Range(subs[i].subscribers)
        THEN <<subs[i].topicHash>> ELSE <<>>)
       \o TopicsOf(subs, clientId, i + 1)

storeClientSubscriptions(b, clientId) ==
  LET found == findStoredSubscription(b, clientId)
      topics == Take(TopicsOf(b.subscriptions, clientId, 1),
                     MAX_STORED_SUBS_PER_CLIENT)
      entry == [clientId |-> clientId, topics |-> topics]
  IN IF found = 0 /\ Len(b.storedSubscriptions) >= MAX_CLIENT_MAPPINGS THEN b
     ELSE saveSubscriptionsToStorage(
            [b EXCEPT !.storedSubscriptions =
               IF found = 0 THEN Append(@, entry)
               ELSE [@ EXCEPT ![found] = entry]])

\* ------------------------------------------------------------------------
\* Active subscription table
\* ------------------------------------------------------------------------
FindTopicRow(subs, topicHash) ==
  LET IsTopic(r) == r.topicHash = topicHash
  IN FirstIndex([ix \in 1..Len(subs) |-> IsTopic(subs[ix])])

\* addSubscription without the scan for the client in the row
addSubscriptionNoScan(b, clientId, topicHash) ==
  LET i == FindTopicRow(b.subscriptions, topicHash)
  IN IF i > 0
     THEN storeClientSubscriptions(
            IF Len(b.subscriptions[i].subscribers) < MAX_SUBSCRIBERS_PER_TOPIC
            THEN [b EXCEPT !.subscriptions[i].subscribers = Append(@, clientId)]
            ELSE b,
            clientId)
     ELSE IF Len(b.subscriptions) < MAX_SUBSCRIPTIONS
          THEN storeClientSubscriptions(
                 [b EXCEPT !.subscriptions =
                    Append(@, [topicHash |-> topicHash,
                               subscribers |-> <<clientId>>])],
                 clientId)
          ELSE b

\* addSubscription that puts a new subscriber first in the row
addSubscriptionInFront(b, clientId, topicHash) ==
  LET i == FindTopicRow(b.subscriptions, topicHash)
  IN IF i > 0
     THEN IF clientId \in Range(b.subscriptions[i].subscribers) THEN b
          ELSE storeClientSubscriptions(
                 IF Len(b.subscriptions[i].subscribers) < MAX_SUBSCRIBERS_PER_TOPIC
                 THEN [b EXCEPT !.subscriptions[i].subscribers =
                                   <<clientId>> \o @]
                 ELSE b,
                 clientId)
     ELSE IF Len(b.subscriptions) < MAX_SUBSCRIPTIONS
          THEN storeClientSubscriptions(
                 [b EXCEPT !.subscriptions =
                    Append(@, [topicHash |-> topicHash,
                               subscribers |-> <<clientId>>])],
                 clientId)
          ELSE b

addSubscription(b, clientId, topicHash) ==
  LET i == FindTopicRow(b.subscriptions, topicHash)
  IN IF i > 0
     THEN IF clientId \in Range(b.subscriptions[i].subscribers) THEN b
          ELSE storeClientSubscriptions(
                 IF Len(b.subscriptions[i].subscribers) < MAX_SUBSCRIBERS_PER_TOPIC
                 THEN [b EXCEPT !.subscriptions[i].subscribers =
                                   Append(@, clientId)]
                 ELSE b,
                 clientId)
     ELSE IF Len(b.subscriptions) < MAX_SUBSCRIPTIONS
          THEN storeClientSubscriptions(
                 [b EXCEPT !.subscriptions =
                    Append(@, [topicHash |-> topicHash,
                               subscribers |-> <<clientId>>])],
                 clientId)
          ELSE b

\* RowWithout that leaves the emptied row in the table
RowWithoutKeepingRow(subs, i, clientId) ==
  LET IsId(x) == x = clientId
      j == FirstIndex([ix \in 1..Len(subs[i].subscribers) |-> IsId(subs[i].subscribers[ix])])
  IN [subs EXCEPT ![i].subscribers = RemoveAt(@, j)]

\* a row after taking out its first occurrence of clientId; the row itself
\* is dropped when it became empty
RowWithout(subs, i, clientId) ==
  LET IsId(x) == x = clientId
      j == FirstIndex([ix \in 1..Len(subs[i].subscribers) |-> IsId(subs[i].subscribers[ix])])
      row == [subs[i] EXCEPT !.subscribers = RemoveAt(@, j)]
  IN IF Len(row.subscribers) = 0 THEN RemoveAt(subs, i)
     ELSE [subs EXCEPT ![i] = row]

\* removeSubscription that leaves the stored entry as it was
removeSubscriptionNoStore(b, clientId, topicHash) ==
  LET i == FindTopicRow(b.subscriptions, topicHash)
  IN IF i > 0 /\ clientId \in Range(b.subscriptions[i].subscribers)
     THEN [b EXCEPT !.subscriptions = RowWithout(@, i, clientId)]
     ELSE b

removeSubscription(b, clientId, topicHash) ==
  LET i == FindTopicRow(b.subscriptions, topicHash)
  IN IF i > 0 /\ clientId \in Range(b.subscriptions[i].subscribers)
     THEN storeClientSubscriptions(
            [b EXCEPT !.subscriptions = RowWithout(@, i, clientId)], clientId)
     ELSE b

\* rows i, i-1, ..., 1: every occurrence of clientId leaves the row, an
\* emptied row leaves the table
RECURSIVE RemoveFromRows(_, _, _)
RemoveFromRows(subs, clientId, i) ==
  IF i < 1 THEN subs
  ELSE LET kept == SelectSeq(subs[i].subscribers, LAMBDA x : x # clientId)
           next == IF Len(kept) = 0 THEN RemoveAt(subs, i)
                   ELSE [subs EXCEPT ![i].subscribers = kept]
       IN RemoveFromRows(next, clientId, i - 1)

removeAllSubscriptions(b, clientId) ==
  storeClientSubscriptions(
    [b EXCEPT !.subscriptions = RemoveFromRows(@, clientId, Len(@))],
    clientId)

\* the table part shared by restoreClientSubscriptions and
\* restoreAllSubscriptionsToActiveTable: one stored (client, topic) pair
RestorePair(subs, clientId, topicHash) ==
  LET i == FindTopicRow(subs, topicHash)
  IN IF i > 0
     THEN IF clientId \notin Range(subs[i].subscribers)
             /\ Len(subs[i].subscribers) < MAX_SUBSCRIBERS_PER_TOPIC
          THEN [subs EXCEPT ![i].subscribers = Append(@, clientId)]
          ELSE subs
     ELSE IF Len(subs) < MAX_SUBSCRIPTIONS
          THEN Append(subs, [topicHash |-> topicHash,
                             subscribers |-> <<clientId>>])
          ELSE subs

\* RestoreTopics whose loop stops one topic early
RECURSIVE RestoreTopicsOneShort(_, _, _, _)
RestoreTopicsOneShort(subs, clientId, topics, j) ==
  IF j > Len(topics) - 1 \/ j > MAX_STORED_SUBS_PER_CLIENT \/ Len(subs) < 0
  THEN subs
  ELSE RestoreTopicsOneShort(RestorePair(subs, clientId, topics[j]),
                             clientId, topics, j + 1)

\* (Len(subs) < 0 never holds: the test has the table of each turn of the
\* loop computed at that turn)
RECURSIVE RestoreTopics(_, _, _, _)
RestoreTopics(subs, clientId, topics, j) ==
  IF j > Len(topics) \/ j > MAX_STORED_SUBS_PER_CLIENT \/ Len(subs) < 0
  THEN subs
  ELSE RestoreTopics(RestorePair(subs, clientId, topics[j]),
                     clientId, topics, j + 1)

RECURSIVE RestoreEntries(_, _, _)
RestoreEntries(subs, stored, i) ==
  IF i > Len(stored) \/ Len(subs) < 0 THEN subs
  ELSE RestoreEntries(
         RestoreTopics(subs, stored[i].clientId, stored[i].topics, 1),
         stored, i + 1)

restoreAllSubscriptionsToActiveTable(b) ==
  [b EXCEPT !.subscriptions = RestoreEntries(@, b.storedSubscriptions, 1)]

\* SUB_RESTORE [clientId][hash_hi][hash_lo][name_len][name...]
SubRestoreMessage(clientId, topicHash, topicName) ==
  SendMessage(CAN_PS_SUB_RESTORE,
    <<clientId, HashHi(topicHash), HashLo(topicHash), Len(topicName) % 256>>
    \o topicName)

SubRestoreFrames(b, clientId, topicHash) ==
  SubRestoreMessage(clientId, topicHash, getStoredTopicName(b, topicHash))

RECURSIVE RestoreAndNotify(_, _, _, _)
RestoreAndNotify(b, clientId, topics, i) ==
  IF i > Len(topics) THEN b
  ELSE RestoreAndNotify(
         Emit([b EXCEPT !.subscriptions = RestorePair(@, clientId, topics[i])],
              SubRestoreFrames(b, clientId, topics[i])),
         clientId, topics, i + 1)

restoreClientSubscriptions(b, clientId) ==
  LET index == findStoredSubscription(b, clientId)
  IN IF index = 0 THEN b
     ELSE RestoreAndNotify(b, clientId, b.storedSubscriptions[index].topics, 1)

\* ------------------------------------------------------------------------
\* Broker: connected set, identity assignment
\* ------------------------------------------------------------------------
findPingState(b, clientId) ==
  LET IsId(e) == e.clientId = clientId
  IN FirstIndex([ix \in 1..Len(b.pingStates) |-> IsId(b.pingStates[ix])])

initPingState(b, clientId) ==
  LET index == findPingState(b, clientId)
  IN IF index > 0
     THEN [b EXCEPT !.pingStates[index].missedPings = 0]
     ELSE IF Len(b.pingStates) < MAX_CLIENT_MAPPINGS
          THEN [b EXCEPT !.pingStates =
                  Append(@, [clientId |-> clientId, missedPings |-> 0])]
          ELSE b

\* initPingState for the registered entries i, i+1, ... of the registry
RECURSIVE InitRegisteredPingStates(_, _)
InitRegisteredPingStates(b, i) ==
  IF i > Len(b.clientMappings) THEN b
  ELSE InitRegisteredPingStates(
         IF b.clientMappings[i].registered
         THEN initPingState(b, b.clientMappings[i].clientId)
         ELSE b,
         i + 1)

\* the connected-list part of trackClientActivity, which the extended
\* ID_REQUEST case repeats inline.  _clientCount is a uint8_t: the test
\* "_clientCount < 256" always passes, and _clientCount++ on the 256th
\* entry wraps to 0, after which none of the entries is read any more
MarkConnected(b, clientId) ==
  IF clientId \in Range(b.connectedClients)
  THEN b
  ELSE Call([b EXCEPT !.connectedClients =
               Take(Append(@, clientId), (Len(@) + 1) % 256)],
            "connect", clientId, <<>>)

\* trackClientActivity that leaves the ping state alone
trackClientActivityNoPingReset(b, clientId) ==
  MarkConnected(b, clientId)

trackClientActivity(b, clientId) ==
  LET b1 == MarkConnected(b, clientId)
      index == findPingState(b1, clientId)
  IN IF b1.autoPingEnabled /\ index > 0
     THEN [b1 EXCEPT !.pingStates[index].missedPings = 0]
     ELSE b1

\* ------------------------------------------------------------------------
\* Broker: keepalive
\* ------------------------------------------------------------------------
savePingConfigToStorage(b) ==
  [b EXCEPT !.store.ping =
     [written |-> TRUE, enabled |-> b.autoPingEnabled,
      interval |-> b.pingInterval, maxMissed |-> b.maxMissedPings]]

\* esp32: each key read with its default; otherwise the three values are
\* read from their EEPROM cells and applied only when they pass the sanity
\* check (cells never written do not pass it)
loadPingConfigFromStorage(b, esp32) ==
  LET cfg == b.store.ping
      sane == /\ cfg.written
              /\ cfg.interval > 0 /\ cfg.interval < MAX_PING_INTERVAL
              /\ cfg.maxMissed > 0 /\ cfg.maxMissed < 255
  IN IF (esp32 /\ cfg.written) \/ (~esp32 /\ sane)
     THEN [b EXCEPT !.autoPingEnabled = cfg.enabled,
                    !.pingInterval = cfg.interval,
                    !.maxMissedPings = cfg.maxMissed]
     ELSE [b EXCEPT !.autoPingEnabled = FALSE,
                    !.pingInterval = DEFAULT_PING_INTERVAL,
                    !.maxMissedPings = DEFAULT_MAX_MISSED_PINGS]

clearStoredPingConfig(b) ==
  savePingConfigToStorage(
    [b EXCEPT !.autoPingEnabled = FALSE,
              !.pingInterval = DEFAULT_PING_INTERVAL,
              !.maxMissedPings = DEFAULT_MAX_MISSED_PINGS])

setPingInterval(b, intervalMs) ==
  savePingConfigToStorage([b EXCEPT !.pingInterval = intervalMs])

setMaxMissedPings(b, maxMissed) ==
  savePingConfigToStorage([b EXCEPT !.maxMissedPings = maxMissed])

enableAutoPing(b, enable) ==
  LET b1 == [b EXCEPT !.autoPingEnabled = enable]
  IN savePingConfigToStorage(
       IF enable THEN InitRegisteredPingStates(b1, 1) ELSE b1)

\* entries i, i+1, ... of the registry: a PING to each registered client,
\* one more missed ping in its ping state
RECURSIVE PingFrom(_, _)
PingFrom(b, i) ==
  IF i > Len(b.clientMappings) THEN b
  ELSE IF ~b.clientMappings[i].registered THEN PingFrom(b, i + 1)
       ELSE LET clientId == b.clientMappings[i].clientId
                b1 == Emit(b, <<StdFrame(CAN_PS_PING,
                                         <<CAN_PS_BROKER_ID, clientId>>)>>)
                stateIdx == findPingState(b1, clientId)
            IN PingFrom(
                 IF stateIdx > 0
                 THEN [b1 EXCEPT !.pingStates[stateIdx].missedPings = @ + 1]
                 ELSE b1,
                 i + 1)

pingAllClients(b) == PingFrom(b, 1)

\* checkClientTimeouts that does not ask whether the client was online
RECURSIVE TimeoutsFromAlways(_, _)
TimeoutsFromAlways(b, i) ==
  IF i > Len(b.pingStates) THEN b
  ELSE LET clientId == b.pingStates[i].clientId
       IN IF b.pingStates[i].missedPings >= b.maxMissedPings
          THEN TimeoutsFromAlways(
                 Call([b EXCEPT !.connectedClients =
                         SelectSeq(@, LAMBDA x : x # clientId)],
                      "disconnect", clientId, <<>>),
                 i + 1)
          ELSE TimeoutsFromAlways(b, i + 1)

\* ping states i, i+1, ...: a client that missed too many pings and is in
\* the connected list leaves it, and the disconnect callback runs
RECURSIVE TimeoutsFrom(_, _)
TimeoutsFrom(b, i) ==
  IF i > Len(b.pingStates) THEN b
  ELSE LET clientId == b.pingStates[i].clientId
           j == FirstIndex([ix \in 1..Len(b.connectedClients) |->
                              b.connectedClients[ix] = clientId])
       IN IF b.pingStates[i].missedPings >= b.maxMissedPings /\ j > 0
          THEN TimeoutsFrom(
                 Call([b EXCEPT !.connectedClients = RemoveAt(@, j)],
                      "disconnect", clientId, <<>>),
                 i + 1)
          ELSE TimeoutsFrom(b, i + 1)

checkClientTimeouts(b) == TimeoutsFrom(b, 1)

\* the timer branch of loop(), taken when auto-ping is enabled and the ping
\* interval has passed
PingWave(b) ==
  IF b.autoPingEnabled THEN checkClientTimeouts(pingAllClients(b)) ELSE b

\* assignClientID without the wrap to 101
assignClientIDNoWrap(b) ==
  [Emit(b, <<StdFrame(CAN_PS_ID_RESPONSE, <<b.nextTempID>>)>>)
     EXCEPT !.nextTempID = (@ + 1) % 256]

assignClientID(b) ==
  [Emit(b, <<StdFrame(CAN_PS_ID_RESPONSE, <<b.nextTempID>>)>>)
     EXCEPT !.nextTempID = IF (@ + 1) % 256 = 255 THEN FIRST_TEMP_ID
                           ELSE (@ + 1) % 256]

\* findOrCreateClientId that takes an unregistered entry for no entry
findOrCreateClientIdRegisteredOnly(b, serialNumber) ==
  LET index == findClientMapping(b, serialNumber)
  IN IF index > 0 /\ b.clientMappings[index].registered
     THEN [b |-> LET b1 == saveMappingsToStorage(b)
                 IN IF b1.autoPingEnabled
                    THEN initPingState(b1, b.clientMappings[index].clientId)
                    ELSE b1,
           id |-> b.clientMappings[index].clientId]
     ELSE IF Len(b.clientMappings) < MAX_CLIENT_MAPPINGS
          THEN [b |-> LET b1 ==
                            [b EXCEPT
                               !.clientMappings =
                                  Append(@, [clientId |-> b.nextClientID,
                                             serialNumber |->
                                               setSerial(serialNumber),
                                             registered |-> TRUE]),
                               !.nextClientID =
                                  IF (@ + 1) % 256 = 255 THEN 1
                                  ELSE (@ + 1) % 256]
                      IN saveMappingsToStorage(
                           IF b1.autoPingEnabled
                           THEN initPingState(b1, b.nextClientID)
                           ELSE b1),
                id |-> b.nextClientID]
          ELSE [b |-> b, id |-> CAN_PS_UNASSIGNED_ID]

\* findOrCreateClientId that does not advance _nextClientID
findOrCreateClientIdNoAdvance(b, serialNumber) ==
  LET index == findClientMapping(b, serialNumber)
  IN IF index > 0
     THEN [b |-> LET b1 == saveMappingsToStorage(
                             [b EXCEPT !.clientMappings[index].registered
                                         = TRUE])
                 IN IF b1.autoPingEnabled
                    THEN initPingState(b1, b.clientMappings[index].clientId)
                    ELSE b1,
           id |-> b.clientMappings[index].clientId]
     ELSE IF Len(b.clientMappings) < MAX_CLIENT_MAPPINGS
          THEN [b |-> LET b1 ==
                            [b EXCEPT
                               !.clientMappings =
                                  Append(@, [clientId |-> b.nextClientID,
                                             serialNumber |->
                                               setSerial(serialNumber),
                                             registered |-> TRUE])]
                      IN saveMappingsToStorage(
                           IF b1.autoPingEnabled
                           THEN initPingState(b1, b.nextClientID)
                           ELSE b1),
                id |-> b.nextClientID]
          ELSE [b |-> b, id |-> CAN_PS_UNASSIGNED_ID]

\* result: the broker afterwards and the returned ID
findOrCreateClientId(b, serialNumber) ==
  LET index == findClientMapping(b, serialNumber)
  IN IF index > 0
     THEN [b |-> LET b1 == saveMappingsToStorage(
                             [b EXCEPT !.clientMappings[index].registered
                                         = TRUE])
                 IN IF b1.autoPingEnabled
                    THEN initPingState(b1, b.clientMappings[index].clientId)
                    ELSE b1,
           id |-> b.clientMappings[index].clientId]
     ELSE IF Len(b.clientMappings) < MAX_CLIENT_MAPPINGS
          THEN [b |-> LET b1 ==
                            [b EXCEPT
                               !.clientMappings =
                                  Append(@, [clientId |-> b.nextClientID,
                                             serialNumber |->
                                               setSerial(serialNumber),
                                             registered |-> TRUE]),
                               !.nextClientID =
                                  IF (@ + 1) % 256 = 255 THEN 1
                                  ELSE (@ + 1) % 256]
                      IN saveMappingsToStorage(
                           IF b1.autoPingEnabled
                           THEN initPingState(b1, b.nextClientID)
                           ELSE b1),
                id |-> b.nextClientID]
          ELSE [b |-> b, id |-> CAN_PS_UNASSIGNED_ID]

\* registerClient that still takes a free ID when the registry is full
registerClientBeyondLimit(b, serialNumber) ==
  IF /\ findClientMapping(b, serialNumber) = 0
     /\ Len(b.clientMappings) >= MAX_CLIENT_MAPPINGS
  THEN [b |-> [b EXCEPT !.nextClientID = (@ + 1) % 256],
        id |-> b.nextClientID]
  ELSE findOrCreateClientId(b, serialNumber)

registerClient(b, serialNumber) ==
  findOrCreateClientId(b, serialNumber)

\* unregisterClient that leaves the client's subscriptions alone
unregisterClientKeepingRows(b, clientId) ==
  LET index == findClientMappingById(b, clientId)
  IN IF index > 0
     THEN saveMappingsToStorage(
            [b EXCEPT !.clientMappings[index].registered = FALSE])
     ELSE b

unregisterClient(b, clientId) ==
  LET index == findClientMappingById(b, clientId)
  IN IF index > 0
     THEN saveMappingsToStorage(
            removeAllSubscriptions(
              [b EXCEPT !.clientMappings[index].registered = FALSE], clientId))
     ELSE b

unregisterClientBySerial(b, serialNumber) ==
  LET index == findClientMapping(b, serialNumber)
  IN IF index > 0
     THEN saveMappingsToStorage(
            removeAllSubscriptions(
              [b EXCEPT !.clientMappings[index].registered = FALSE],
              b.clientMappings[index].clientId))
     ELSE b

\* result: the broker afterwards and the value returned
updateClientSerial(b, clientId, newSerial) ==
  LET index == findClientMappingById(b, clientId)
  IN IF index > 0 /\ findClientMapping(b, newSerial) = 0
     THEN [b |-> saveMappingsToStorage(
                   [b EXCEPT !.clientMappings[index].serialNumber =
                               setSerial(newSerial)]),
           ok |-> TRUE]
     ELSE [b |-> b, ok |-> FALSE]

\* HasStoredSubs that never finds stored topics
HasStoredSubsNever(b, clientId) == FALSE

HasStoredSubs(b, clientId) ==
  LET subIndex == findStoredSubscription(b, clientId)
  IN subIndex > 0 /\ Len(b.storedSubscriptions[subIndex].topics) > 0

\* ID_RESPONSE [assignedId][hasStoredSubs][serial_len][serial...]
IdResponseFrames(assignedId, hasStoredSubs, serialNumber) ==
  SendMessage(CAN_PS_ID_RESPONSE,
    <<assignedId, IF hasStoredSubs THEN 1 ELSE 0, Len(serialNumber) % 256>>
    \o serialNumber)

\* the part handleIdRequestWithSerial and the extended ID_REQUEST case share
\* after the serial was read; the extended case updates the connected list
\* inline, without trackClientActivity
AnswerIdRequest(b, serialNumber, extended) ==
  LET r == findOrCreateClientId(b, serialNumber)
      hasStoredSubs == HasStoredSubs(r.b, r.id)
      b1 == Emit(r.b, IdResponseFrames(r.id, hasStoredSubs, serialNumber))
      b2 == IF extended THEN MarkConnected(b1, r.id)
            ELSE trackClientActivity(b1, r.id)
  IN IF hasStoredSubs THEN restoreClientSubscriptions(b2, r.id) ELSE b2

handleIdRequestWithSerial(b, data) ==
  IF Len(data) = 0 THEN assignClientID(b)
  ELSE AnswerIdRequest(b, data, FALSE)

\* ------------------------------------------------------------------------
\* Broker: standard-frame handlers
\* ------------------------------------------------------------------------
\* [len][name...] after the three-byte prefix: at most len bytes, as far as
\* the frame has them
NameField(data) ==
  IF Len(data) > 3 THEN Take(Drop(data, 4), data[4]) ELSE <<>>

LearnTopic(b, topicHash, topicName) ==
  IF Len(topicName) > 0
  THEN storeTopicName(
         [b EXCEPT !.topicMappings = registerTopic(@, topicName)],
         topicHash, topicName)
  ELSE b

handleSubscribe(b, data) ==
  IF Len(data) < 3 THEN b
  ELSE LET clientId == data[1]
           topicHash == HashOf(data[2], data[3])
       IN addSubscription(
            LearnTopic(trackClientActivity(b, clientId), topicHash,
                       NameField(data)),
            clientId, topicHash)

handleUnsubscribe(b, data) ==
  IF Len(data) < 3 THEN b
  ELSE removeSubscription(trackClientActivity(b, data[1]), data[1],
                          HashOf(data[2], data[3]))

\* TOPIC_DATA [subId][hash][message...] to the subscribers j, j+1, ... of
\* a row
RECURSIVE ForwardToRow(_, _, _, _)
ForwardToRow(b, row, message, j) ==
  IF j > Len(row.subscribers) THEN b
  ELSE ForwardToRow(
         Emit(b, SendMessage(CAN_PS_TOPIC_DATA,
                   <<row.subscribers[j], HashHi(row.topicHash),
                     HashLo(row.topicHash)>> \o message)),
         row, message, j + 1)

\* forwardToSubscribers that starts at the row's second subscriber
forwardToSubscribersFromSecond(b, topicHash, message) ==
  LET i == FindTopicRow(b.subscriptions, topicHash)
  IN IF i = 0 THEN b ELSE ForwardToRow(b, b.subscriptions[i], message, 2)

forwardToSubscribers(b, topicHash, message) ==
  LET i == FindTopicRow(b.subscriptions, topicHash)
  IN IF i = 0 THEN b ELSE ForwardToRow(b, b.subscriptions[i], message, 1)

\* the part handlePublish and the extended PUBLISH case share
Publish(b, publisherId, topicHash, message) ==
  forwardToSubscribers(
    Call(trackClientActivity(b, publisherId), "publish", topicHash,
         <<getTopicName(b.topicMappings, topicHash), message>>),
    topicHash, message)

handlePublish(b, data) ==
  IF Len(data) < 3 THEN b
  ELSE Publish(b, data[1], HashOf(data[2], data[3]), Drop(data, 3))

\* DirectMessage that calls the callback and sends no ACK
DirectMessageNoAck(b, senderId, message) ==
  Call(trackClientActivity(b, senderId), "direct", senderId, message)

\* the part handleDirectMessage and the extended DIRECT_MSG case share:
\* ACK [broker][sender]"ACK"
DirectMessage(b, senderId, message) ==
  Emit(Call(trackClientActivity(b, senderId), "direct", senderId, message),
       <<StdFrame(CAN_PS_ACK, <<CAN_PS_BROKER_ID, senderId, 65, 67, 75>>)>>)

handleDirectMessage(b, data) ==
  IF Len(data) < 1 THEN b
  ELSE DirectMessage(b, data[1], Drop(data, 1))

handlePing(b, data) ==
  IF Len(data) < 1 THEN b
  ELSE Emit(trackClientActivity(b, data[1]),
            <<StdFrame(CAN_PS_PONG, <<CAN_PS_BROKER_ID, data[1]>>)>>)

handlePong(b, data) ==
  IF Len(data) < 2 THEN b
  ELSE IF data[2] # CAN_PS_BROKER_ID THEN b
       ELSE trackClientActivity(b, data[1])

\* ForwardPeer that looks up the target only
ForwardPeerTargetOnly(b, senderId, targetId, message) ==
  IF findClientMappingById(b, targetId) = 0 THEN b
  ELSE Emit(b, SendMessage(CAN_PS_PEER_MSG,
                           <<senderId, targetId>> \o message))

\* the forwarding part shared by handlePeerMessage and the extended
\* PEER_MSG case
ForwardPeer(b, senderId, targetId, message) ==
  IF findClientMappingById(b, senderId) = 0 THEN b
  ELSE IF findClientMappingById(b, targetId) = 0 THEN b
       ELSE Emit(b, SendMessage(CAN_PS_PEER_MSG,
                                <<senderId, targetId>> \o message))

handlePeerMessage(b, data) ==
  IF Len(data) < 2 THEN b
  ELSE ForwardPeer(trackClientActivity(b, data[1]), data[1], data[2],
                   Drop(data, 2))

\* ------------------------------------------------------------------------
\* Broker: completed extended messages, dispatch
\* ------------------------------------------------------------------------
onExtendedMessageComplete(b, msgType, senderId, data) ==
  CASE msgType = CAN_PS_ID_REQUEST ->
         IF Len(data) = 0 THEN b
         ELSE AnswerIdRequest(b, data, TRUE)
    [] msgType = CAN_PS_SUBSCRIBE ->
         IF Len(data) < 2 THEN b
         ELSE LET topicHash == HashOf(data[1], data[2])
              IN trackClientActivity(
                   addSubscription(LearnTopic(b, topicHash, Drop(data, 2)),
                                   senderId, topicHash),
                   senderId)
    [] msgType = CAN_PS_PUBLISH ->
         IF Len(data) < 2 THEN b
         ELSE Publish(b, senderId, HashOf(data[1], data[2]), Drop(data, 2))
    [] msgType = CAN_PS_DIRECT_MSG -> DirectMessage(b, senderId, data)
    [] msgType = CAN_PS_PEER_MSG ->
         IF Len(data) < 1 THEN b
         ELSE ForwardPeer(trackClientActivity(b, senderId), senderId, data[1],
                          Drop(data, 1))
    [] OTHER -> b

BrokerExtendedFrame(b, frame) ==
  LET r == processExtendedFrame(b.extBuffer, frame, FALSE)
      b1 == [b EXCEPT !.extBuffer = r.buf]
  IN IF r.done
     THEN onExtendedMessageComplete(b1, r.msgType, r.senderId, r.data)
     ELSE b1

\* CANPubSubBroker::handleMessage on one received frame
handleMessage(b, frame) ==
  IF frame.ext THEN BrokerExtendedFrame(b, frame)
  ELSE CASE frame.id = CAN_PS_SUBSCRIBE -> handleSubscribe(b, frame.data)
         [] frame.id = CAN_PS_UNSUBSCRIBE -> handleUnsubscribe(b, frame.data)
         [] frame.id = CAN_PS_PUBLISH -> handlePublish(b, frame.data)
         [] frame.id = CAN_PS_DIRECT_MSG -> handleDirectMessage(b, frame.data)
         [] frame.id = CAN_PS_PEER_MSG -> handlePeerMessage(b, frame.data)
         [] frame.id = CAN_PS_PING -> handlePing(b, frame.data)
         [] frame.id = CAN_PS_PONG -> handlePong(b, frame.data)
         [] frame.id = CAN_PS_ID_REQUEST ->
              IF Len(frame.data) > 0
              THEN handleIdRequestWithSerial(b, frame.data)
              ELSE assignClientID(b)
         [] OTHER -> b

\* the frames of one message, received back to back
RECURSIVE BrokerReceive(_, _, _)
BrokerReceive(b, frames, i) ==
  IF i > Len(frames) THEN b
  ELSE BrokerReceive(handleMessage(b, frames[i]), frames, i + 1)

\* begin(): counts reset, namespaces reloaded, active table rebuilt
begin(b, esp32) ==
  LET b1 ==
        restoreAllSubscriptionsToActiveTable(
          loadPingConfigFromStorage(
            loadTopicNamesFromStorage(
              loadSubscriptionsFromStorage(
                loadMappingsFromStorage(
                  [b EXCEPT !.subscriptions = <<>>,
                            !.nextClientID = 1,
                            !.nextTempID = FIRST_TEMP_ID,
                            !.connectedClients = <<>>,
                            !.clientMappings = <<>>,
                            !.storedSubscriptions = <<>>,
                            !.storedTopicCount = 0,
                            !.pingStates = <<>>,
                            !.topicMappings = <<>>]))),
            esp32))
  IN IF b1.autoPingEnabled
     THEN pingAllClients(InitRegisteredPingStates(b1, 1))
     ELSE b1

\* ------------------------------------------------------------------------
\* Client: what its operations put on the bus
\* ------------------------------------------------------------------------
requestClientID == <<StdFrame(CAN_PS_ID_REQUEST, <<>>)>>

requestClientIDWithSerial(serialNumber) ==
  IF Len(serialNumber) > CAN_FRAME_DATA_SIZE
  THEN sendExtendedMessage(CAN_PS_ID_REQUEST,
         Take(<<0>> \o serialNumber, MAX_EXTENDED_MSG_SIZE))
  ELSE <<StdFrame(CAN_PS_ID_REQUEST, serialNumber)>>

\* subscribe(): totalSize counts the length byte, the extended buffer
\* does not carry it
SubscribeFrames(clientId, topic) ==
  LET topicHash == hashTopic(topic)
      head == <<clientId, HashHi(topicHash), HashLo(topicHash)>>
  IN IF 1 + 2 + 1 + Len(topic) > CAN_FRAME_DATA_SIZE
     THEN sendExtendedMessage(CAN_PS_SUBSCRIBE, head \o topic)
     ELSE <<StdFrame(CAN_PS_SUBSCRIBE, head \o <<Len(topic) % 256>> \o topic)>>

UnsubscribeFrames(clientId, topic) ==
  LET topicHash == hashTopic(topic)
  IN <<StdFrame(CAN_PS_UNSUBSCRIBE,
                <<clientId, HashHi(topicHash), HashLo(topicHash)>>)>>

PeerMessageFrames(clientId, targetClientId, message) ==
  SendMessage(CAN_PS_PEER_MSG, <<clientId, targetClientId>> \o message)

PublishFrames(clientId, topic, message) ==
  SendMessage(CAN_PS_PUBLISH,
    <<clientId, HashHi(hashTopic(topic)), HashLo(hashTopic(topic))>>
    \o message)

DirectMessageFrames(clientId, message) ==
  SendMessage(CAN_PS_DIRECT_MSG, <<clientId>> \o message)

\* ping()
PingFrames(clientId) == <<StdFrame(CAN_PS_PING, <<clientId>>)>>

\* the client's answer to PING [senderId][clientId]
PongFrames(clientId, senderId) ==
  <<StdFrame(CAN_PS_PONG, <<clientId, senderId>>)>>

\* ------------------------------------------------------------------------
\* What a receiver of a frame sequence is handed: a standard frame as it is,
\* an extended sequence once the reassembler completed it (sender byte
\* first)
\* ------------------------------------------------------------------------
RECURSIVE Delivered(_, _, _)
Delivered(frames, buf, i) ==
  IF i > Len(frames) THEN <<>>
  ELSE IF ~frames[i].ext
       THEN <<[type |-> frames[i].id, bytes |-> frames[i].data]>>
            \o Delivered(frames, buf, i + 1)
       ELSE LET r == processExtendedFrame(buf, frames[i], FALSE)
            IN (IF r.done
                THEN <<[type |-> r.msgType,
                        bytes |-> <<r.senderId>> \o r.data]>>
                ELSE <<>>)
               \o Delivered(frames, r.buf, i + 1)

Received(frames) == Delivered(frames, EmptyExtBuffer, 1)

\* ------------------------------------------------------------------------
\* Client (CANPubSubClient)
\* ------------------------------------------------------------------------
\* pc: "connecting" inside the receive loop of connect(), "idle" otherwise;
\* tx: the frames the last operation put on the bus
ClientConstructed ==
  [clientId |-> CAN_PS_UNASSIGNED_ID,
   connected |-> FALSE,
   serialNumber |-> <<>>,
   subscribedTopics |-> <<>>,
   topicMappings |-> <<>>,
   extBuffer |-> EmptyExtBuffer,
   pc |-> "idle",
   tx |-> <<>>]

\* handleIdAssignment that compares only as many bytes as its own serial has
handleIdAssignmentPrefix(c, data) ==
  IF Len(data) < 1 THEN c
  ELSE LET assignedId == data[1]
           receivedSerial == Take(Drop(data, 3), data[3])
       IN IF /\ Len(data) > 2
             /\ Len(c.serialNumber) > 0
             /\ Take(receivedSerial, Len(c.serialNumber)) # c.serialNumber
          THEN c
          ELSE [c EXCEPT !.clientId = assignedId, !.connected = TRUE]

\* standard ID_RESPONSE [id][has_stored_subs][serial_len][serial...]
handleIdAssignment(c, data) ==
  IF Len(data) < 1 THEN c
  ELSE LET assignedId == data[1]
           receivedSerial == Take(Drop(data, 3), data[3])
       IN IF /\ Len(data) > 2
             /\ Len(c.serialNumber) > 0
             /\ receivedSerial # c.serialNumber
          THEN c
          ELSE [c EXCEPT !.clientId = assignedId, !.connected = TRUE]

\* the list update shared by the SUBSCRIBE notification and SUB_RESTORE
AddLocalTopic(c, topicHash) ==
  IF /\ topicHash \notin Range(c.subscribedTopics)
     /\ Len(c.subscribedTopics) < MAX_CLIENT_TOPICS
  THEN [c EXCEPT !.subscribedTopics = Append(@, topicHash)]
  ELSE c

\* standard SUBSCRIBE notification [clientId][hash][name_len][name...]
handleSubscribeNotification(c, data) ==
  IF Len(data) < 4 THEN c
  ELSE IF data[1] # c.clientId THEN c
       ELSE LET topic == NameField(data)
            IN AddLocalTopic(
                 IF Len(topic) > 0
                 THEN [c EXCEPT !.topicMappings = registerTopic(@, topic)]
                 ELSE c,
                 HashOf(data[2], data[3]))

\* standard SUB_RESTORE: the name is registered whether or not it is empty
handleSubscriptionRestore(c, data) ==
  IF Len(data) < 4 THEN c
  ELSE IF data[1] # c.clientId THEN c
       ELSE AddLocalTopic(
              [c EXCEPT !.topicMappings = registerTopic(@, NameField(data))],
              HashOf(data[2], data[3]))

ClientExtendedMessageComplete(c, msgType, senderId, data) ==
  CASE msgType = CAN_PS_ID_RESPONSE ->
         IF Len(data) < 2 THEN c
         ELSE LET receivedSerial == Take(Drop(data, 2), data[2])
              IN IF Len(c.serialNumber) > 0 /\ receivedSerial # c.serialNumber
                 THEN c
                 ELSE [c EXCEPT !.clientId = senderId, !.connected = TRUE]
    [] msgType \in {CAN_PS_SUBSCRIBE, CAN_PS_SUB_RESTORE} ->
         IF Len(data) < 3 THEN c
         ELSE IF senderId # c.clientId THEN c
              ELSE LET topic == Take(Drop(data, 3), data[3])
                   IN AddLocalTopic(
                        IF Len(topic) > 0
                        THEN [c EXCEPT !.topicMappings = registerTopic(@, topic)]
                        ELSE c,
                        HashOf(data[1], data[2]))
    [] OTHER -> c

\* CANPubSubClient::handleMessage on one received frame
ClientHandleMessage(c, frame) ==
  IF frame.ext
  THEN LET r == processExtendedFrame(c.extBuffer, frame, FALSE)
           c1 == [c EXCEPT !.extBuffer = r.buf]
       IN IF r.done
          THEN ClientExtendedMessageComplete(c1, r.msgType, r.senderId, r.data)
          ELSE c1
  ELSE CASE frame.id = CAN_PS_ID_RESPONSE -> handleIdAssignment(c, frame.data)
         [] frame.id = CAN_PS_SUBSCRIBE ->
              handleSubscribeNotification(c, frame.data)
         [] frame.id = CAN_PS_SUB_RESTORE ->
              handleSubscriptionRestore(c, frame.data)
         [] OTHER -> c

\* connect(serialNumber) up to its receive loop
connect(c, serial) ==
  [c EXCEPT !.subscribedTopics = <<>>,
            !.serialNumber = serial,
            !.pc = "connecting",
            !.tx = requestClientIDWithSerial(serial)]

\* connect(timeout), without serial, up to its receive loop; _serialNumber
\* keeps what it held
connectAnonymous(c) ==
  [c EXCEPT !.subscribedTopics = <<>>,
            !.pc = "connectingAnonymous",
            !.tx = requestClientID]

\* the receive loop of connect(timeout) reads frames only while no ID is
\* held; that of connect(serialNumber, timeout) until its time is up
ConnectReads(c) ==
  c.pc = "connectingAnonymous" => c.clientId = CAN_PS_UNASSIGNED_ID

\* connect(serialNumber) from the end of its receive loop
ConnectReturn(c) ==
  [c EXCEPT !.connected = IF c.clientId # CAN_PS_UNASSIGNED_ID THEN TRUE ELSE @,
            !.pc = "idle",
            !.tx = <<>>]

\* the value either connect() returns at that point
ConnectResult(c) == c.clientId # CAN_PS_UNASSIGNED_ID

\* publish, sendDirectMessage, sendPeerMessage and ping: the client
\* afterwards and the value returned
publish(c, topic, message) ==
  IF ~c.connected THEN [c |-> [c EXCEPT !.tx = <<>>], ok |-> FALSE]
  ELSE [c |-> [c EXCEPT !.topicMappings = registerTopic(@, topic),
                        !.tx = PublishFrames(c.clientId, topic, message)],
        ok |-> TRUE]

sendDirectMessage(c, message) ==
  IF ~c.connected THEN [c |-> [c EXCEPT !.tx = <<>>], ok |-> FALSE]
  ELSE [c |-> [c EXCEPT !.tx = DirectMessageFrames(c.clientId, message)],
        ok |-> TRUE]

sendPeerMessage(c, targetClientId, message) ==
  IF ~c.connected \/ Len(c.serialNumber) = 0
  THEN [c |-> [c EXCEPT !.tx = <<>>], ok |-> FALSE]
  ELSE [c |-> [c EXCEPT !.tx = PeerMessageFrames(c.clientId, targetClientId,
                                                 message)],
        ok |-> TRUE]

ping(c) ==
  IF ~c.connected THEN [c |-> [c EXCEPT !.tx = <<>>], ok |-> FALSE]
  ELSE [c |-> [c EXCEPT !.tx = PingFrames(c.clientId)], ok |-> TRUE]

subscribe(c, topic) ==
  IF ~c.connected THEN [c EXCEPT !.tx = <<>>]
  ELSE [c EXCEPT
          !.topicMappings = registerTopic(@, topic),
          !.subscribedTopics =
             IF Len(@) < MAX_CLIENT_TOPICS THEN Append(@, hashTopic(topic))
             ELSE @,
          !.tx = SubscribeFrames(c.clientId, topic)]

unsubscribe(c, topic) ==
  IF ~c.connected THEN [c EXCEPT !.tx = <<>>]
  ELSE LET IsTopic(h) == h = hashTopic(topic)
           i == FirstIndex([ix \in 1..Len(c.subscribedTopics) |-> IsTopic(c.subscribedTopics[ix])])
       IN [c EXCEPT
             !.subscribedTopics = IF i > 0 THEN RemoveAt(@, i) ELSE @,
             !.tx = UnsubscribeFrames(c.clientId, topic)]

ClientEnd(c) ==
  [c EXCEPT !.connected = FALSE,
            !.clientId = CAN_PS_UNASSIGNED_ID,
            !.subscribedTopics = <<>>,
            !.serialNumber = <<>>,
            !.tx = <<>>]

\* ------------------------------------------------------------------------
\* Inputs of the model
\* ------------------------------------------------------------------------
\* "A1"
SerialA == <<65, 49>>

\* "B2-LONG99": ID_REQUEST and ID_RESPONSE both need extended frames
SerialB == <<66, 50, 45, 76, 79, 78, 71, 57, 57>>

Serials == {SerialA, SerialB}

\* serials of other devices on the bus: "A19" and "B2-LONG98"
OtherSerials == {<<65, 49, 57>>, <<66, 50, 45, 76, 79, 78, 71, 57, 56>>}

\* "x"
TopicX == <<120>>

\* "temp/1": SUBSCRIBE and SUB_RESTORE need extended frames
TopicTemp == <<116, 101, 109, 112, 47, 49>>

Topics == {TopicX, TopicTemp}

\* "hi" and "sensors" (2 + 7 bytes: extended)
Payloads == {<<104, 105>>, <<115, 101, 110, 115, 111, 114, 115>>}

PeerSenders == {1, FIRST_TEMP_ID}

PeerTargets == {1, 2}

\* what a broker may send while the client listens: answers to this and to
\* other devices' ID requests, restored subscriptions, an anonymous answer
ClientInputs ==
  {IdResponseFrames(id, FALSE, sn) :
     id \in {1, 2}, sn \in Serials \cup OtherSerials}
  \cup {SubRestoreMessage(1, hashTopic(t), t) : t \in Topics}
  \cup {<<StdFrame(CAN_PS_ID_RESPONSE, <<FIRST_TEMP_ID>>)>>}

\* ------------------------------------------------------------------------
\* State
\* ------------------------------------------------------------------------
VARIABLES
  broker,   \* the CANPubSubBroker object, its persisted store (.store) and
            \* the frames its last handler put on the bus (.tx)
  client,   \* a CANPubSubClient object
  up,       \* frames on the bus the broker has not read yet
  bus,      \* frames on the bus the client has not read yet
  esp32,    \* the build: Preferences (TRUE) or EEPROM (FALSE) storage
  lastOp,   \* the operation that led to this state, with the facts about
            \* the state before it that the properties refer to
  hist      \* history of the exchange being followed: the tables before a
            \* SUBSCRIBE while its UNSUBSCRIBE follows, or the stored topics
            \* of a serial while its handshake runs

vars == <<broker, client, up, bus, esp32, lastOp, hist>>

clientSide == <<client, up, bus>>

brokerSide == <<broker, esp32>>

NoOp == [op |-> "none", a |-> 0, b |-> 0, p |-> <<>>, was |-> FALSE]

Op(op, a, b, p, was) == [op |-> op, a |-> a, b |-> b, p |-> p, was |-> was]

NoHistory == [phase |-> "none"]

\* a handler starts with nothing sent yet
Rx(b) == [b EXCEPT !.tx = <<>>, !.calls = <<>>]

InRow(b, clientId, topicHash) ==
  \E i \in 1..Len(b.subscriptions) :
    /\ b.subscriptions[i].topicHash = topicHash
    /\ clientId \in Range(b.subscriptions[i].subscribers)

OnlyInRow(b, clientId, topicHash) ==
  \E i \in 1..Len(b.subscriptions) :
    /\ b.subscriptions[i].topicHash = topicHash
    /\ b.subscriptions[i].subscribers = <<clientId>>

\* some registry entry, registered or not, carries clientId
InRegistry(b, clientId) ==
  \E i \in 1..Len(b.clientMappings) : b.clientMappings[i].clientId = clientId

StoredTopics(b, clientId) ==
  LET index == findStoredSubscription(b, clientId)
  IN IF index = 0 THEN {} ELSE Range(b.storedSubscriptions[index].topics)

\* clients whose outages are followed
PingClients == {1, 2}

IsRegistered(b, clientId) ==
  \E i \in 1..Len(b.clientMappings) :
     /\ b.clientMappings[i].clientId = clientId
     /\ b.clientMappings[i].registered

IsOnline(b, clientId) == clientId \in Range(b.connectedClients)

MissedPings(b, clientId) ==
  IF findPingState(b, clientId) > 0
  THEN b.pingStates[findPingState(b, clientId)].missedPings
  ELSE 0

\* nothing heard and no ping wave yet; online: the clients in the connected
\* list now
OutageReset(b) ==
  [phase |-> "outage",
   waves |-> [c \in PingClients |-> 0],
   fired |-> [c \in PingClients |-> 0],
   online |-> [c \in PingClients |-> IsOnline(b, c)]]

\* the broker handled a frame from clientId and is now b
OutageHeard(h, b, clientId) ==
  IF clientId \in PingClients
  THEN [h EXCEPT !.waves[clientId] = 0,
                 !.fired[clientId] = 0,
                 !.online[clientId] = IsOnline(b, clientId)]
  ELSE h

\* a ping wave took the broker from b to b2: one more silent wave for each
\* followed client that was online when last heard and is registered, and
\* the disconnect callbacks the wave made
OutageWave(h, b, b2) ==
  [h EXCEPT
     !.waves = [c \in PingClients |->
                  IF h.online[c] /\ IsRegistered(b, c)
                  THEN Min(h.waves[c] + 1, MaxMissed) ELSE h.waves[c]],
     !.fired = [c \in PingClients |->
                  Min(MaxMissed,
                      h.fired[c]
                      + Cardinality({k \in 1..Len(b2.calls) :
                                       /\ b2.calls[k].cb = "disconnect"
                                       /\ b2.calls[k].id = c}))]]

Init ==
  /\ esp32 \in BOOLEAN
  /\ broker = begin(BrokerConstructed(EmptyStore), esp32)
  /\ client = ClientConstructed
  /\ up = <<>>
  /\ bus = <<>>
  /\ lastOp = NoOp
  /\ hist = NoHistory

\* ------------------------------------------------------------------------
\* Broker steps, one received message or host call each
\* ------------------------------------------------------------------------
\* the broker receives SUBSCRIBE from clientId for topic
Subscribe(clientId, topic, followed) ==
  /\ broker' = BrokerReceive(Rx(broker), SubscribeFrames(clientId, topic), 1)
  /\ lastOp' = Op("Subscribe", 0, 0, <<>>,
                  InRow(broker, clientId, hashTopic(topic)))
  /\ hist' = IF followed
             THEN [phase |-> "subscribed", client |-> clientId,
                   topic |-> hashTopic(topic),
                   subscriptions |-> broker.subscriptions,
                   storedSubscriptions |-> broker.storedSubscriptions]
             ELSE NoHistory
  /\ UNCHANGED <<esp32, clientSide>>

\* the broker receives UNSUBSCRIBE from clientId for topic
Unsubscribe(clientId, topic) ==
  /\ broker' = BrokerReceive(Rx(broker), UnsubscribeFrames(clientId, topic), 1)
  /\ lastOp' = Op("Unsubscribe", 0, 0, <<>>,
                  OnlyInRow(broker, clientId, hashTopic(topic)))
  /\ hist' = IF /\ hist.phase = "subscribed"
                /\ hist.client = clientId
                /\ hist.topic = hashTopic(topic)
             THEN [hist EXCEPT !.phase = "unsubscribed"]
             ELSE NoHistory
  /\ UNCHANGED <<esp32, clientSide>>

\* the broker receives a by-serial ID_REQUEST
IdRequest(serialNumber) ==
  /\ broker' = BrokerReceive(Rx(broker),
                             requestClientIDWithSerial(serialNumber), 1)
  /\ lastOp' = Op("IdRequest", 0, 0, serialNumber,
                  findClientMapping(broker, serialNumber) > 0)
  /\ hist' = IF hist.phase = "outage"
             THEN OutageHeard(hist, broker',
                    LET index == findClientMapping(broker', serialNumber)
                    IN IF index > 0 THEN broker'.clientMappings[index].clientId
                       ELSE CAN_PS_UNASSIGNED_ID)
             ELSE NoHistory
  /\ UNCHANGED <<esp32, clientSide>>

\* the broker receives an anonymous ID_REQUEST
TempIdRequest ==
  /\ broker' = BrokerReceive(Rx(broker), requestClientID, 1)
  /\ lastOp' = Op("AnonymousIdRequest", 0, 0, <<>>, FALSE)
  /\ hist' = NoHistory
  /\ UNCHANGED <<esp32, clientSide>>

\* the same with the number of temporary IDs handed out kept small
AnonymousIdRequest ==
  /\ broker.nextTempID < FIRST_TEMP_ID + MaxTempAssign
  /\ TempIdRequest

\* the broker receives PEER_MSG
PeerMessage(senderId, targetId, message) ==
  /\ broker' = BrokerReceive(Rx(broker),
                             PeerMessageFrames(senderId, targetId, message), 1)
  /\ lastOp' = Op("PeerMessage", senderId, targetId, message,
                  /\ InRegistry(broker, senderId)
                  /\ InRegistry(broker, targetId))
  /\ hist' = NoHistory
  /\ UNCHANGED <<esp32, clientSide>>

\* the host calls unregisterClient(clientId)
UnregisterClient(clientId) ==
  /\ broker' = unregisterClient(Rx(broker), clientId)
  /\ lastOp' = Op("UnregisterClient", clientId, 0, <<>>,
                  /\ findClientMappingById(broker, clientId) > 0
                  /\ \E i \in 1..Len(broker.subscriptions) :
                        broker.subscriptions[i].subscribers = <<clientId>>)
  /\ hist' = IF hist.phase = "outage" THEN OutageReset(broker')
             ELSE NoHistory
  /\ UNCHANGED <<esp32, clientSide>>

\* the host calls clearStoredSubscriptions()
ClearStoredSubscriptions ==
  /\ broker' = clearStoredSubscriptions(Rx(broker))
  /\ lastOp' = Op("ClearStoredSubscriptions", 0, 0, <<>>, FALSE)
  /\ hist' = NoHistory
  /\ UNCHANGED <<esp32, clientSide>>

\* the host calls clearStoredMappings()
ClearStoredMappings ==
  /\ broker' = clearStoredMappings(Rx(broker), esp32)
  /\ lastOp' = Op("ClearStoredMappings", 0, 0, <<>>, FALSE)
  /\ hist' = NoHistory
  /\ UNCHANGED <<esp32, clientSide>>

\* power cycle of the broker: a fresh object on the same store, then begin()
Begin ==
  /\ broker' = begin(BrokerConstructed(broker.store), esp32)
  /\ lastOp' = Op("Begin", 0, 0, <<>>, FALSE)
  /\ hist' = IF hist.phase \in {"requested", "answered"} THEN hist
             ELSE IF hist.phase = "outage" THEN OutageReset(broker')
             ELSE NoHistory
  /\ UNCHANGED <<esp32, clientSide>>

\* the broker receives a message a connected client sends: SUBSCRIBE,
\* UNSUBSCRIBE, PUBLISH, DIRECT_MSG, PEER_MSG, PING or PONG
ClientMessages(clientId) ==
  {SubscribeFrames(clientId, t) : t \in Topics}
  \cup {UnsubscribeFrames(clientId, t) : t \in Topics}
  \cup {PublishFrames(clientId, TopicX, m) : m \in Payloads}
  \cup {DirectMessageFrames(clientId, m) : m \in Payloads}
  \cup {PeerMessageFrames(clientId, 2, m) : m \in Payloads}
  \cup {PingFrames(clientId), PongFrames(clientId, CAN_PS_BROKER_ID)}

ClientFrame(clientId, frames) ==
  /\ broker' = BrokerReceive(Rx(broker), frames, 1)
  /\ lastOp' = Op("ClientFrame", clientId, 0, <<>>,
                  /\ broker.autoPingEnabled
                  /\ MissedPings(broker, clientId) > 0)
  /\ hist' = IF hist.phase = "outage"
             THEN OutageHeard(hist, broker', clientId)
             ELSE NoHistory
  /\ UNCHANGED <<esp32, clientSide>>

\* loop() finds the ping interval passed: pingAllClients, checkClientTimeouts
Wave ==
  /\ broker.autoPingEnabled
  /\ \A i \in 1..Len(broker.pingStates) :
        broker.pingStates[i].missedPings < MaxMissed
  /\ broker' = PingWave(Rx(broker))
  /\ lastOp' = Op("Wave", 0, 0, <<>>, FALSE)
  /\ hist' = IF hist.phase = "outage"
             THEN OutageWave(hist, broker, broker')
             ELSE NoHistory
  /\ UNCHANGED <<esp32, clientSide>>

\* the host calls enableAutoPing(enable)
EnableAutoPing(enable) ==
  /\ broker' = enableAutoPing(Rx(broker), enable)
  /\ lastOp' = Op("EnableAutoPing", 0, 0, <<>>, enable)
  /\ hist' = IF hist.phase = "outage" THEN OutageReset(broker')
             ELSE NoHistory
  /\ UNCHANGED <<esp32, clientSide>>

\* the host calls setMaxMissedPings(maxMissed)
SetMaxMissedPings(maxMissed) ==
  /\ broker' = setMaxMissedPings(Rx(broker), maxMissed)
  /\ lastOp' = Op("SetMaxMissedPings", maxMissed, 0, <<>>, FALSE)
  /\ hist' = IF hist.phase = "outage" THEN OutageReset(broker')
             ELSE NoHistory
  /\ UNCHANGED <<esp32, clientSide>>

\* the host calls setPingInterval(intervalMs)
SetPingInterval(intervalMs) ==
  /\ broker' = setPingInterval(Rx(broker), intervalMs)
  /\ lastOp' = Op("SetPingInterval", 0, 0, <<>>, FALSE)
  /\ hist' = IF hist.phase = "outage" THEN OutageReset(broker')
             ELSE NoHistory
  /\ UNCHANGED <<esp32, clientSide>>

ClearStoredPingConfig ==
  /\ broker' = clearStoredPingConfig(Rx(broker))
  /\ lastOp' = Op("ClearStoredPingConfig", 0, 0, <<>>, FALSE)
  /\ hist' = NoHistory
  /\ UNCHANGED <<esp32, clientSide>>

\* the broker receives PUBLISH from publisherId; p: the message as it is on
\* the bus (publish() cuts what does not fit the 128 bytes)
PublishIn(publisherId, topic, message) ==
  /\ broker' = BrokerReceive(Rx(broker),
                             PublishFrames(publisherId, topic, message), 1)
  /\ lastOp' = Op("Publish", publisherId, hashTopic(topic),
                  Take(message, MAX_EXTENDED_MSG_SIZE - 3), FALSE)
  /\ hist' = NoHistory
  /\ UNCHANGED <<esp32, clientSide>>

\* the broker receives DIRECT_MSG from senderId; p: the message as it is
\* on the bus
DirectIn(senderId, message) ==
  /\ broker' = BrokerReceive(Rx(broker),
                             DirectMessageFrames(senderId, message), 1)
  /\ lastOp' = Op("Direct", senderId, 0,
                  Take(message, MAX_EXTENDED_MSG_SIZE - 1), FALSE)
  /\ hist' = NoHistory
  /\ UNCHANGED <<esp32, clientSide>>

\* the host calls clearStoredTopicNames()
ClearStoredTopicNames ==
  /\ broker' = clearStoredTopicNames(Rx(broker))
  /\ lastOp' = Op("ClearStoredTopicNames", 0, 0, <<>>, FALSE)
  /\ hist' = NoHistory
  /\ UNCHANGED <<esp32, clientSide>>

UpdateClientSerial(clientId, newSerial) ==
  /\ broker' = updateClientSerial(Rx(broker), clientId, newSerial).b
  /\ lastOp' = Op("UpdateClientSerial", clientId, 0, newSerial,
                  updateClientSerial(Rx(broker), clientId, newSerial).ok)
  /\ hist' = NoHistory
  /\ UNCHANGED <<esp32, clientSide>>

\* the host calls registerClient(serialNumber); lastOp.b is the value
\* returned
RegisterClient(serialNumber) ==
  /\ broker' = registerClient(Rx(broker), serialNumber).b
  /\ lastOp' = Op("RegisterClient", Len(broker.clientMappings),
                  registerClient(Rx(broker), serialNumber).id, serialNumber,
                  findClientMapping(broker, serialNumber) > 0)
  /\ hist' = NoHistory
  /\ UNCHANGED <<esp32, clientSide>>

\* ------------------------------------------------------------------------
\* Client steps and the bus between client and broker
\* ------------------------------------------------------------------------
\* the serial of the by-serial ID_REQUEST that frame completes at the
\* broker, <<>> when it completes none
RequestedSerial(b, frame) ==
  IF frame.ext
  THEN LET r == processExtendedFrame(b.extBuffer, frame, FALSE)
       IN IF r.done /\ r.msgType = CAN_PS_ID_REQUEST THEN r.data ELSE <<>>
  ELSE IF frame.id = CAN_PS_ID_REQUEST THEN frame.data ELSE <<>>

\* the serial echoed by the ID_RESPONSE that frame completes at the client;
\* none: the frame completes no ID_RESPONSE that echoes a serial
EchoedSerial(c, frame) ==
  IF frame.ext
  THEN LET r == processExtendedFrame(c.extBuffer, frame, FALSE)
       IN IF r.done /\ r.msgType = CAN_PS_ID_RESPONSE /\ Len(r.data) >= 2
          THEN [none |-> FALSE,
                serial |-> SubSeq(r.data, 3, Min(2 + r.data[2], Len(r.data)))]
          ELSE [none |-> TRUE, serial |-> <<>>]
  ELSE IF frame.id = CAN_PS_ID_RESPONSE /\ Len(frame.data) >= 3
       THEN [none |-> FALSE,
             serial |-> SubSeq(frame.data, 4,
                               Min(3 + frame.data[3], Len(frame.data)))]
       ELSE [none |-> TRUE, serial |-> <<>>]

\* frame completes an ID_RESPONSE that the client takes as its own: it
\* echoes no serial, or the client has none, or the two are equal
IdResponseTaken(c, frame) ==
  /\ IF frame.ext
     THEN LET r == processExtendedFrame(c.extBuffer, frame, FALSE)
          IN r.done /\ r.msgType = CAN_PS_ID_RESPONSE /\ Len(r.data) >= 2
     ELSE frame.id = CAN_PS_ID_RESPONSE /\ Len(frame.data) >= 1
  /\ LET e == EchoedSerial(c, frame)
     IN e.none \/ Len(c.serialNumber) = 0 \/ e.serial = c.serialNumber

\* the application calls connect(serial)
ClientConnect(serial) ==
  /\ client.pc = "idle"
  /\ Len(up) <= MaxUpBacklog
  /\ Len(bus) <= MaxBusBacklog
  /\ client' = connect(client, serial)
  /\ up' = up \o client'.tx
  /\ lastOp' = Op("ClientConnect", 0, 0, serial, FALSE)
  /\ hist' = [phase |-> "requested", serial |-> serial, id |-> 0,
              topics |-> {}, quiet |-> bus = <<>>, heard |-> FALSE]
  /\ UNCHANGED <<bus, brokerSide>>

\* the receive loop of connect() ends (200 ms after the ID, or timeout)
ClientConnectReturn ==
  /\ client.pc # "idle"
  /\ client' = ConnectReturn(client)
  /\ lastOp' = Op("ClientConnectReturn", 0, 0, <<>>, ConnectResult(client))
  /\ UNCHANGED <<up, bus, brokerSide, hist>>

\* the application calls connect() without serial
ClientConnectAnonymous ==
  /\ client.pc = "idle"
  /\ Len(up) <= MaxUpBacklog
  /\ Len(bus) <= MaxBusBacklog
  /\ client' = connectAnonymous(client)
  /\ up' = up \o client'.tx
  /\ lastOp' = Op("ClientConnect", 0, 0, <<>>, FALSE)
  /\ hist' = [phase |-> "requested", serial |-> <<>>, id |-> 0,
              topics |-> {}, quiet |-> bus = <<>>, heard |-> FALSE]
  /\ UNCHANGED <<bus, brokerSide>>

\* the client reads one frame (loop(), or the receive loop of connect())
ClientLoop ==
  /\ bus # <<>>
  /\ ConnectReads(client)
  /\ client' = [ClientHandleMessage(client, Head(bus)) EXCEPT !.tx = <<>>]
  /\ bus' = Tail(bus)
  /\ lastOp' = LET e == EchoedSerial(client, Head(bus))
               IN Op("ClientLoop", 0, 0, e.serial,
                     /\ ~e.none
                     /\ Len(client.serialNumber) > 0
                     /\ e.serial # client.serialNumber)
  /\ hist' = IF /\ hist.phase \in {"requested", "answered"}
                /\ client.pc # "idle"
                /\ IdResponseTaken(client, Head(bus))
             THEN [hist EXCEPT !.heard = TRUE]
             ELSE hist
  /\ UNCHANGED <<up, brokerSide>>

\* the application calls subscribe(topic)
ClientSubscribe(topic) ==
  /\ client.pc = "idle"
  /\ Len(client.subscribedTopics) < MaxLocalList
  /\ Len(up) <= MaxUpBacklog
  /\ Len(bus) <= MaxBusBacklog
  /\ client' = subscribe(client, topic)
  /\ up' = up \o client'.tx
  /\ lastOp' = Op("ClientSubscribe", 0, 0, <<>>, client.connected)
  /\ hist' = NoHistory
  /\ UNCHANGED <<bus, brokerSide>>

\* the application calls unsubscribe(topic)
ClientUnsubscribe(topic) ==
  /\ client.pc = "idle"
  /\ Len(up) <= MaxUpBacklog
  /\ Len(bus) <= MaxBusBacklog
  /\ client' = unsubscribe(client, topic)
  /\ up' = up \o client'.tx
  /\ lastOp' = Op("ClientUnsubscribe", 0, 0, <<>>, client.connected)
  /\ hist' = NoHistory
  /\ UNCHANGED <<bus, brokerSide>>

\* the application calls publish, sendDirectMessage, sendPeerMessage or
\* ping; lastOp.was is the value returned
ClientPublish(topic, message) ==
  /\ client.pc = "idle"
  /\ Len(up) <= MaxUpBacklog
  /\ client' = publish(client, topic, message).c
  /\ up' = up \o client'.tx
  /\ lastOp' = Op("ClientPublish", 0, 0, <<>>,
                  publish(client, topic, message).ok)
  /\ hist' = NoHistory
  /\ UNCHANGED <<bus, brokerSide>>

ClientSendDirectMessage(message) ==
  /\ client.pc = "idle"
  /\ Len(up) <= MaxUpBacklog
  /\ client' = sendDirectMessage(client, message).c
  /\ up' = up \o client'.tx
  /\ lastOp' = Op("ClientSendDirectMessage", 0, 0, <<>>,
                  sendDirectMessage(client, message).ok)
  /\ hist' = NoHistory
  /\ UNCHANGED <<bus, brokerSide>>

ClientSendPeerMessage(targetClientId, message) ==
  /\ client.pc = "idle"
  /\ Len(up) <= MaxUpBacklog
  /\ client' = sendPeerMessage(client, targetClientId, message).c
  /\ up' = up \o client'.tx
  /\ lastOp' = Op("ClientSendPeerMessage", 0, 0, <<>>,
                  sendPeerMessage(client, targetClientId, message).ok)
  /\ hist' = NoHistory
  /\ UNCHANGED <<bus, brokerSide>>

ClientPing ==
  /\ client.pc = "idle"
  /\ Len(up) <= MaxUpBacklog
  /\ client' = ping(client).c
  /\ up' = up \o client'.tx
  /\ lastOp' = Op("ClientPing", 0, 0, <<>>, ping(client).ok)
  /\ hist' = NoHistory
  /\ UNCHANGED <<bus, brokerSide>>

\* the application calls end()
ClientEndCall ==
  /\ client.pc = "idle"
  /\ client' = ClientEnd(client)
  /\ lastOp' = Op("ClientEnd", 0, 0, <<>>, FALSE)
  /\ hist' = NoHistory
  /\ UNCHANGED <<up, bus, brokerSide>>

\* the broker reads one frame (loop()); what it sends reaches the client
BrokerLoop ==
  /\ up # <<>>
  /\ broker' = handleMessage(Rx(broker), Head(up))
  /\ up' = Tail(up)
  /\ bus' = bus \o broker'.tx
  /\ LET sn == RequestedSerial(broker, Head(up))
         index == findClientMapping(broker, sn)
         id == IF index > 0 THEN broker.clientMappings[index].clientId ELSE 0
         following == hist.phase \in {"requested", "answered"}
         answered == /\ following
                     /\ Len(sn) > 0
                     /\ sn = hist.serial
                     /\ StoredTopics(broker, id) # {}
     IN /\ lastOp' = Op("BrokerLoop", 0, 0, <<>>, answered)
        /\ hist' = IF answered
                   THEN [hist EXCEPT !.phase = "answered", !.id = id,
                                     !.topics = StoredTopics(broker, id)]
                   ELSE IF /\ following
                           /\ \/ Len(sn) > 0
                              \/ broker'.subscriptions # broker.subscriptions
                        THEN [hist EXCEPT !.phase = "requested", !.id = 0,
                                          !.topics = {}]
                        ELSE hist
  /\ UNCHANGED <<client, esp32>>

\* a broker on the bus answers some device's request (client alone)
BusDeliver(frames) ==
  /\ bus = <<>>
  /\ bus' = frames
  /\ lastOp' = Op("BusDeliver", 0, 0, <<>>, FALSE)
  /\ UNCHANGED <<client, up, brokerSide, hist>>

\* nothing reads what the client sent (client alone)
Unheard ==
  /\ up # <<>>
  /\ up' = <<>>
  /\ lastOp' = Op("Unheard", 0, 0, <<>>, FALSE)
  /\ UNCHANGED <<client, bus, brokerSide, hist>>

\* ------------------------------------------------------------------------
\* Specifications
\* ------------------------------------------------------------------------
\* Subscription tables: one serial, the client it names and an anonymous
\* client subscribe, unsubscribe and reconnect around clears and restarts
TableClients == {1, FIRST_TEMP_ID}

NextTables ==
  \/ \E c \in TableClients, t \in Topics : Subscribe(c, t, FALSE)
  \/ \E c \in TableClients, t \in Topics : Unsubscribe(c, t)
  \/ IdRequest(SerialB)
  \/ UnregisterClient(1)
  \/ ClearStoredSubscriptions
  \/ ClearStoredMappings
  \/ Begin

SpecTables == Init /\ [][NextTables]_vars

\* Round trips: every SUBSCRIBE is followed with the tables before it
NextRoundTrip ==
  \/ \E c \in TableClients, t \in Topics : Subscribe(c, t, TRUE)
  \/ \E c \in TableClients, t \in Topics : Unsubscribe(c, t)
  \/ ClearStoredSubscriptions
  \/ Begin

SpecRoundTrip == Init /\ [][NextRoundTrip]_vars

\* Anonymous clients: the temporary ID subscribes once it was handed out
NextAnonymous ==
  \/ AnonymousIdRequest
  \/ \E c \in TableClients, t \in Topics :
       /\ c >= FIRST_TEMP_ID => broker.nextTempID > c
       /\ Subscribe(c, t, FALSE)
  \/ \E c \in TableClients, t \in Topics :
       /\ c >= FIRST_TEMP_ID => broker.nextTempID > c
       /\ Unsubscribe(c, t)
  \/ IdRequest(SerialA)
  \/ UnregisterClient(1)

SpecAnonymous == Init /\ [][NextAnonymous]_vars

\* Identities: two serials and anonymous clients ask for IDs and exchange
\* peer messages around unregistrations, clears and restarts
NextIdentity ==
  \/ \E s \in Serials : IdRequest(s)
  \/ AnonymousIdRequest
  \/ \E s \in PeerSenders, t \in PeerTargets, m \in Payloads :
       PeerMessage(s, t, m)
  \/ \E c \in {1, 2} : UnregisterClient(c)
  \/ ClearStoredMappings
  \/ Begin

SpecIdentity == Init /\ [][NextIdentity]_vars

\* Keepalive: two serials, every kind of client message, ping waves, the
\* keepalive settings, unregister and restart
InitKeepalive ==
  /\ esp32 \in BOOLEAN
  /\ broker = begin(BrokerConstructed(EmptyStore), esp32)
  /\ client = ClientConstructed
  /\ up = <<>>
  /\ bus = <<>>
  /\ lastOp = NoOp
  /\ hist = OutageReset(broker)

NextKeepalive ==
  \/ \E s \in Serials : IdRequest(s)
  \/ \E c \in PingClients :
        \E m \in {PingFrames(c), PongFrames(c, CAN_PS_BROKER_ID)} :
           ClientFrame(c, m)
  \/ Wave
  \/ \E e \in BOOLEAN : EnableAutoPing(e)
  \/ \E n \in {1, 2} : SetMaxMissedPings(n)
  \/ UnregisterClient(1)
  \/ Begin

SpecKeepalive == InitKeepalive /\ [][NextKeepalive]_vars

\* Activity: every kind of message of the client with ID 1 between ping
\* waves, on the ESP32 build
InitActivity == Init /\ esp32

NextActivity ==
  \/ \E s \in Serials : IdRequest(s)
  \/ \E m \in ClientMessages(1) : ClientFrame(1, m)
  \/ Wave
  \/ \E e \in BOOLEAN : EnableAutoPing(e)

SpecActivity == InitActivity /\ [][NextActivity]_vars

\* ------------------------------------------------------------------------
\* Frame codec alone: messages of 9..128 bytes are split by
\* sendExtendedMessage and their frames handed, in order, to the
\* reassembler of a receiver.  up holds the frames not yet delivered,
\* hist the message, the receiver's _extBuffer and the calls of
\* onExtendedMessageComplete made for it.
\* ------------------------------------------------------------------------
CodecTypes == {CAN_PS_PUBLISH, CAN_PS_ID_REQUEST, CAN_PS_PEER_MSG}

CodecLengths == (CAN_FRAME_DATA_SIZE + 1)..MAX_EXTENDED_MSG_SIZE

\* lengths of the messages that follow the first: the shortest, one that
\* fills its last frame, the longest
CodecNextLengths ==
  {CAN_FRAME_DATA_SIZE + 1, 2 * CAN_FRAME_DATA_SIZE, MAX_EXTENDED_MSG_SIZE}

\* a payload whose bytes differ from position to position
CodecPayload(length, seed) ==
  [i \in 1..length |-> (i * 37 + seed * 101) % 256]

CodecSent(msgType, data) ==
  [phase |-> "codec", type |-> msgType, payload |-> data,
   buf |-> EmptyExtBuffer, got |-> <<>>, late |-> FALSE]

InitCodec ==
  /\ esp32 = TRUE
  /\ broker = begin(BrokerConstructed(EmptyStore), esp32)
  /\ client = ClientConstructed
  /\ bus = <<>>
  /\ lastOp = NoOp
  /\ \E msgType \in CodecTypes, length \in CodecLengths, seed \in {0, 1} :
       /\ up = sendExtendedMessage(msgType, CodecPayload(length, seed))
       /\ hist = CodecSent(msgType, CodecPayload(length, seed))

\* the next message is sent once the frames of the last one are through
CodecSend(msgType, length, seed) ==
  /\ up = <<>>
  /\ up' = sendExtendedMessage(msgType, CodecPayload(length, seed))
  /\ hist' = [CodecSent(msgType, CodecPayload(length, seed))
                EXCEPT !.buf = hist.buf]
  /\ lastOp' = Op("CodecSend", msgType, length, <<>>, FALSE)
  /\ UNCHANGED <<broker, client, bus, esp32>>

\* the receiver reads the next frame; late: more than EXTENDED_MSG_TIMEOUT
\* after the frame before it, while a message is being assembled
CodecDeliver(late) ==
  /\ up # <<>>
  /\ late => hist.buf.active
  /\ LET r == processExtendedFrame(hist.buf, Head(up), late)
     IN hist' = [hist EXCEPT
                   !.buf = r.buf,
                   !.late = @ \/ late,
                   !.got = IF r.done
                           THEN Append(@, [msgType |-> r.msgType,
                                           senderId |-> r.senderId,
                                           data |-> r.data])
                           ELSE @]
  /\ up' = Tail(up)
  /\ lastOp' = Op("CodecDeliver", 0, 0, <<>>, late)
  /\ UNCHANGED <<broker, client, bus, esp32>>

NextCodec ==
  \/ \E msgType \in CodecTypes, length \in CodecNextLengths :
       CodecSend(msgType, length, 1)
  \/ \E late \in BOOLEAN : CodecDeliver(late)

SpecCodec == InitCodec /\ [][NextCodec]_vars

\* Persistence: every operation that changes persisted state, and restarts,
\* on either storage backend
PersistIntervals == {1000}

PersistMaxMissed == {0}

NextPersist ==
  \/ IdRequest(SerialA)
  \/ Subscribe(1, TopicX, FALSE)
  \/ Unsubscribe(1, TopicX)
  \/ UnregisterClient(1)
  \/ UpdateClientSerial(1, SerialB)
  \/ \E e \in BOOLEAN : EnableAutoPing(e)
  \/ \E n \in PersistMaxMissed : SetMaxMissedPings(n)
  \/ \E i \in PersistIntervals : SetPingInterval(i)
  \/ ClearStoredMappings
  \/ ClearStoredSubscriptions
  \/ ClearStoredPingConfig
  \/ Begin

SpecPersist == Init /\ [][NextPersist]_vars

\* Topic names: SUBSCRIBE frames as CANPubSubClient::subscribe builds them
\* for topics of one to five characters, two of which ("Aa", "BB") have the
\* same hash, and restarts
TopicAa == <<65, 97>>

TopicBB == <<66, 66>>

TopicHello == <<104, 101, 108, 108, 111>>

NameTopics == {TopicAa, TopicBB, TopicHello}

NextNames ==
  \/ \E t \in NameTopics : Subscribe(1, t, FALSE)
  \/ \E t \in NameTopics : Unsubscribe(1, t)
  \/ Begin

SpecNames == Init /\ [][NextNames]_vars

\* Temporary IDs: anonymous requests until the counter has wrapped, with a
\* by-serial registration and restarts in between
NextTempIds ==
  \/ TempIdRequest
  \/ IdRequest(SerialA)
  \/ Begin

SpecTempIds == Init /\ [][NextTempIds]_vars

\* Full registry: the host registers "F01", "F02", ... until all but two
\* of the 50 entries are taken, and then known and unknown serials
FillSerial(k) == <<70, 48 + (k \div 10), 48 + (k % 10)>>

FullSerials == {SerialA, SerialB, FillSerial(1), FillSerial(51)}

NearlyFull(b) == Len(b.clientMappings) >= MAX_CLIENT_MAPPINGS - 2

NextFull ==
  \/ /\ ~NearlyFull(broker)
     /\ RegisterClient(FillSerial(Len(broker.clientMappings) + 1))
  \/ /\ NearlyFull(broker)
     /\ \E s \in FullSerials : RegisterClient(s)
  \/ NearlyFull(broker) /\ UnregisterClient(1)
  \/ NearlyFull(broker) /\ Begin

SpecFull == Init /\ [][NextFull]_vars

\* Serials: registration and renaming with a short serial and one of 40
\* characters, more than a registry entry has room for
SerialLong == [i \in 1..40 |-> 83]

RegistrySerials == {SerialA, SerialLong}

NextSerials ==
  \/ \E s \in RegistrySerials :
       Len(broker.clientMappings) < MaxRegistry /\ RegisterClient(s)
  \/ \E s \in RegistrySerials :
       Len(broker.clientMappings) < MaxRegistry /\ IdRequest(s)
  \/ \E c \in {1, 2}, s \in RegistrySerials : UpdateClientSerial(c, s)
  \/ UnregisterClient(1)
  \/ Begin

SpecSerials == Init /\ [][NextSerials]_vars

\* Registry: serials register through the host and over the bus, are
\* renamed and unregistered, around clearStoredMappings and restarts
RoomInRegistry == Len(broker.clientMappings) < MaxRegistry

RegisterWhileRoom(serialNumber) ==
  RoomInRegistry /\ RegisterClient(serialNumber)

IdRequestWhileRoom(serialNumber) ==
  RoomInRegistry /\ IdRequest(serialNumber)

NextRegistry ==
  \/ \E s \in {SerialA, SerialB} : RegisterWhileRoom(s)
  \/ IdRequestWhileRoom(SerialA)
  \/ \E c \in {1, 2} : UpdateClientSerial(c, SerialLong)
  \/ \E c \in {1, 2} : UnregisterClient(c)
  \/ ClearStoredMappings
  \/ Begin

SpecRegistry == Init /\ [][NextRegistry]_vars

\* Client sessions: connect() with and without serial, answered by some
\* broker, by a broker whose registry is full (ID 0xFF), or not at all; the
\* client's operations; end()
SessionInputs ==
  {IdResponseFrames(id, FALSE, SerialA) : id \in {1, CAN_PS_UNASSIGNED_ID}}
  \cup {<<StdFrame(CAN_PS_ID_RESPONSE, <<FIRST_TEMP_ID>>)>>}

SessionPayload == <<104, 105>>

NextSession ==
  \/ ClientConnect(SerialA)
  \/ ClientConnectAnonymous
  \/ ClientConnectReturn
  \/ ClientLoop
  \/ ClientSubscribe(TopicX)
  \/ ClientUnsubscribe(TopicX)
  \/ ClientPublish(TopicX, SessionPayload)
  \/ ClientSendDirectMessage(SessionPayload)
  \/ ClientSendPeerMessage(2, SessionPayload)
  \/ ClientPing
  \/ ClientEndCall
  \/ \E m \in SessionInputs : BusDeliver(m)
  \/ Unheard

SpecSession == Init /\ [][NextSession]_vars

\* Frames too short for their type: standard frames with fewer bytes than
\* the handler reads, extended first frames without data (no sender byte)
\* and the second frame that completes such a message
ShortHash == <<HashHi(hashTopic(TopicX)), HashLo(hashTopic(TopicX))>>

ShortExtendedTypes ==
  {CAN_PS_ID_REQUEST, CAN_PS_SUBSCRIBE, CAN_PS_PUBLISH, CAN_PS_DIRECT_MSG,
   CAN_PS_PEER_MSG}

ShortFirstFrames ==
  {[ext |-> TRUE, id |-> ExtId(t, 0, n), data |-> <<>>] :
     t \in ShortExtendedTypes, n \in {1, 2}}

ShortLastFrames ==
  {[ext |-> TRUE, id |-> ExtId(t, 1, 2), data |-> ShortHash \o TopicX] :
     t \in {CAN_PS_DIRECT_MSG}}

ShortFrames ==
  {StdFrame(t, Take(<<1>> \o ShortHash, n)) :
     t \in {CAN_PS_SUBSCRIBE, CAN_PS_UNSUBSCRIBE, CAN_PS_PUBLISH},
     n \in 0..2}
  \cup {StdFrame(t, <<>>) : t \in {CAN_PS_DIRECT_MSG, CAN_PS_PING}}
  \cup {StdFrame(t, Take(<<1, 2>>, n)) :
          t \in {CAN_PS_PONG, CAN_PS_PEER_MSG}, n \in 0..1}
  \cup ShortFirstFrames \cup ShortLastFrames

ShortClientFrames ==
  {StdFrame(CAN_PS_ID_RESPONSE, <<>>)}
  \cup {StdFrame(t, Take(<<1>> \o ShortHash, n)) :
          t \in {CAN_PS_SUBSCRIBE, CAN_PS_SUB_RESTORE}, n \in 0..3}
  \cup {[ext |-> TRUE, id |-> ExtId(t, 0, n), data |-> <<>>] :
          t \in {CAN_PS_ID_RESPONSE, CAN_PS_SUBSCRIBE, CAN_PS_SUB_RESTORE},
          n \in {1, 2}}
  \cup {[ext |-> TRUE, id |-> ExtId(CAN_PS_ID_RESPONSE, 1, 2),
         data |-> <<0, 2>> \o SerialA]}

\* the broker's loop reads one such frame
ShortFrame(frame) ==
  /\ broker' = handleMessage(Rx(broker), frame)
  /\ lastOp' = Op("ShortFrame", 0, 0, <<>>, FALSE)
  /\ hist' = NoHistory
  /\ UNCHANGED <<esp32, clientSide>>

\* the client's loop() reads one frame
ClientRead(frame) ==
  /\ client' = [ClientHandleMessage(client, frame) EXCEPT !.tx = <<>>]
  /\ lastOp' = Op("ClientRead", 0, 0, <<>>, frame \in ShortClientFrames)
  /\ hist' = NoHistory
  /\ UNCHANGED <<up, bus, brokerSide>>

NextShort ==
  \/ IdRequest(SerialA)
  \/ \E f \in ShortFrames : ShortFrame(f)
  \/ \E f \in ShortClientFrames \cup {StdFrame(CAN_PS_ID_RESPONSE, <<1>>)} :
        ClientRead(f)

SpecShort == Init /\ [][NextShort]_vars

\* The four clear operations of the host, on stores that hold a registry
\* entry, a subscription, a topic name and a ping configuration
NextClears ==
  \/ IdRequest(SerialA)
  \/ Subscribe(1, TopicX, FALSE)
  \/ EnableAutoPing(TRUE)
  \/ ClearStoredMappings
  \/ ClearStoredSubscriptions
  \/ ClearStoredTopicNames
  \/ ClearStoredPingConfig
  \/ Begin

SpecClears == Init /\ [][NextClears]_vars

\* Ping configuration: values inside, at the edges of and outside the
\* valid ranges given to the setters, written to the store and read back
ConfigIntervals == {0, 1, 1000, MAX_PING_INTERVAL - 1, MAX_PING_INTERVAL}

ConfigMaxMissed == {0, 1, 254, 255}

NextPingConfig ==
  \/ \E i \in ConfigIntervals : SetPingInterval(i)
  \/ \E n \in ConfigMaxMissed : SetMaxMissedPings(n)
  \/ \E e \in BOOLEAN : EnableAutoPing(e)
  \/ ClearStoredPingConfig
  \/ Begin

SpecPingConfig == Init /\ [][NextPingConfig]_vars

\* Two senders, each with one extended message of its own type on the bus
\* at the same time: the receiver reads their frames in any interleaving
\* that keeps each sender's order
InterleaveLengths ==
  {CAN_FRAME_DATA_SIZE + 1, 2 * CAN_FRAME_DATA_SIZE + 1,
   3 * CAN_FRAME_DATA_SIZE}

InterleaveSent(length1, length2) ==
  <<[type |-> CAN_PS_PUBLISH, payload |-> CodecPayload(length1, 0)],
    [type |-> CAN_PS_DIRECT_MSG, payload |-> CodecPayload(length2, 1)]>>

InitInterleave ==
  /\ esp32 = TRUE
  /\ broker = begin(BrokerConstructed(EmptyStore), esp32)
  /\ client = ClientConstructed
  /\ up = <<>>
  /\ bus = <<>>
  /\ lastOp = NoOp
  /\ \E length1 \in InterleaveLengths, length2 \in InterleaveLengths :
       LET sent == InterleaveSent(length1, length2)
       IN hist = [phase |-> "interleave",
                  sent |-> sent,
                  streams |-> [k \in {1, 2} |->
                     sendExtendedMessage(sent[k].type, sent[k].payload)],
                  buf |-> EmptyExtBuffer,
                  got |-> <<>>,
                  interrupted |-> {}]

\* the receiver reads the next frame of sender k, less than
\* EXTENDED_MSG_TIMEOUT after the frame before it
InterleaveDeliver(k) ==
  /\ hist.phase = "interleave"
  /\ hist.streams[k] # <<>>
  /\ LET frame == Head(hist.streams[k])
         r == processExtendedFrame(hist.buf, frame, FALSE)
         other == hist.buf.active /\ FrameType(frame) # hist.buf.msgType
     IN /\ hist' = [hist EXCEPT
                      !.streams[k] = Tail(@),
                      !.buf = r.buf,
                      !.got = IF r.done
                              THEN Append(@, [msgType |-> r.msgType,
                                              senderId |-> r.senderId,
                                              data |-> r.data])
                              ELSE @,
                      !.interrupted = IF other THEN @ \cup {hist.buf.msgType}
                                      ELSE @]
        /\ lastOp' = Op("InterleaveDeliver", FrameType(frame),
                        FrameSeq(frame), <<>>, other)
  /\ UNCHANGED <<broker, client, up, bus, esp32>>

NextInterleave == \E k \in {1, 2} : InterleaveDeliver(k)

SpecInterleave == InitInterleave /\ [][NextInterleave]_vars

\* Reassembly on a shared, lossy bus: two senders each send one extended
\* PUBLISH; the receiver reads their frames in any interleaving that keeps
\* each sender's order, and a frame may be lost or arrive twice
SameTypeSent(length1, length2) ==
  <<[type |-> CAN_PS_PUBLISH, payload |-> CodecPayload(length1, 0)],
    [type |-> CAN_PS_PUBLISH, payload |-> CodecPayload(length2, 1)]>>

InitSameType ==
  /\ esp32 = TRUE
  /\ broker = begin(BrokerConstructed(EmptyStore), esp32)
  /\ client = ClientConstructed
  /\ up = <<>>
  /\ bus = <<>>
  /\ lastOp = NoOp
  /\ \E length1 \in InterleaveLengths, length2 \in InterleaveLengths :
       LET sent == SameTypeSent(length1, length2)
       IN hist = [phase |-> "interleave",
                  sent |-> sent,
                  streams |-> [k \in {1, 2} |->
                     sendExtendedMessage(sent[k].type, sent[k].payload)],
                  buf |-> EmptyExtBuffer,
                  got |-> <<>>,
                  interrupted |-> {},
                  lost |-> 0,
                  repeated |-> 0]

\* the next frame of sender k never reaches the receiver
InterleaveLose(k) ==
  /\ hist.phase = "interleave"
  /\ hist.streams[k] # <<>>
  /\ hist.lost < MaxLost
  /\ hist' = [hist EXCEPT !.streams[k] = Tail(@), !.lost = @ + 1]
  /\ lastOp' = Op("InterleaveLose", FrameType(Head(hist.streams[k])),
                  FrameSeq(Head(hist.streams[k])), <<>>, FALSE)
  /\ UNCHANGED <<broker, client, up, bus, esp32>>

\* the receiver reads the next frame of sender k and will read it again
InterleaveRepeat(k) ==
  /\ hist.phase = "interleave"
  /\ hist.streams[k] # <<>>
  /\ hist.repeated < MaxRepeated
  /\ LET frame == Head(hist.streams[k])
         r == processExtendedFrame(hist.buf, frame, FALSE)
     IN /\ hist' = [hist EXCEPT
                      !.buf = r.buf,
                      !.got = IF r.done
                              THEN Append(@, [msgType |-> r.msgType,
                                              senderId |-> r.senderId,
                                              data |-> r.data])
                              ELSE @,
                      !.repeated = @ + 1]
        /\ lastOp' = Op("InterleaveRepeat", FrameType(frame),
                        FrameSeq(frame), <<>>, FALSE)
  /\ UNCHANGED <<broker, client, up, bus, esp32>>

NextSameType ==
  \/ \E k \in {1, 2} : InterleaveDeliver(k)
  \/ \E k \in {1, 2} : InterleaveLose(k)
  \/ \E k \in {1, 2} : InterleaveRepeat(k)

SpecSameType == InitSameType /\ [][NextSameType]_vars

\* Publishing: two clients subscribe to and leave a topic; one of them and
\* a third client publish to it and to a topic nobody subscribed to, with
\* payloads that make PUBLISH and TOPIC_DATA standard or extended
\* "other"
TopicOther == <<111, 116, 104, 101, 114>>

PublishPayloads ==
  {<<>>, <<104, 105>>, CodecPayload(CAN_FRAME_DATA_SIZE - 3, 0),
   CodecPayload(CAN_FRAME_DATA_SIZE - 2, 0),
   CodecPayload(3 * CAN_FRAME_DATA_SIZE, 0)}

NextPublish ==
  \/ \E c \in {1, 2} : Subscribe(c, TopicX, FALSE)
  \/ \E c \in {1, 2} : Unsubscribe(c, TopicX)
  \/ \E c \in {1, 3}, t \in {TopicX, TopicOther}, m \in PublishPayloads :
       PublishIn(c, t, m)

SpecPublish == Init /\ [][NextPublish]_vars

\* Subscriber order: three clients subscribe to and leave one topic in any
\* order, a message is published to it, the broker restarts
NextOrder ==
  \/ \E c \in {1, 2, 3} : Subscribe(c, TopicX, FALSE)
  \/ \E c \in {1, 2, 3} : Unsubscribe(c, TopicX)
  \/ PublishIn(3, TopicX, SessionPayload)
  \/ Begin

SpecOrder == Init /\ [][NextOrder]_vars

\* Direct messages: a registered and an unregistered client send DIRECT_MSG
\* of lengths that make it a standard frame or an extended sequence; between
\* them the broker handles the other kinds of message
DirectPayloads ==
  {<<>>, <<104, 105>>, CodecPayload(CAN_FRAME_DATA_SIZE - 1, 0),
   CodecPayload(CAN_FRAME_DATA_SIZE, 0),
   CodecPayload(3 * CAN_FRAME_DATA_SIZE, 0)}

OtherMessages ==
  {SubscribeFrames(1, TopicX), UnsubscribeFrames(1, TopicX),
   PingFrames(1), PongFrames(1, CAN_PS_BROKER_ID)}
  \cup {PublishFrames(1, TopicX, m) : m \in Payloads}
  \cup {PeerMessageFrames(1, 1, m) : m \in Payloads}

NextDirect ==
  \/ IdRequest(SerialA)
  \/ \E m \in OtherMessages : ClientFrame(1, m)
  \/ \E c \in {1, 3}, m \in DirectPayloads : DirectIn(c, m)

SpecDirect == Init /\ [][NextDirect]_vars

\* Connected set: two serials shake hands (standard and extended request),
\* ping waves time them out and they come back; meanwhile one sender ID
\* after the other shows up with a PING, until all 256 values of the ID
\* byte have been seen
\* the other operations are followed while the connected set is this small
MaxBusy == 2

\* the smallest sender ID that is not connected (the list never holds all
\* 256)
SweepId(b) ==
  LET absent == (0..255) \ Range(b.connectedClients)
  IN IF Len(b.connectedClients) \in absent
        /\ \A m \in absent : m >= Len(b.connectedClients)
     THEN Len(b.connectedClients)
     ELSE CHOOSE n \in absent : \A m \in absent : n <= m

Busy == Len(broker.connectedClients) <= MaxBusy

\* the next new sender sends PING
SweepPing ==
  LET n == SweepId(broker) IN ClientFrame(n, PingFrames(n))

BusyIdRequest(serialNumber) ==
  /\ Busy
  /\ IdRequest(serialNumber)

BusyEnableAutoPing ==
  /\ Busy
  /\ EnableAutoPing(TRUE)

BusyWave ==
  /\ Busy
  /\ Wave

NextConnected ==
  \/ SweepPing
  \/ \E s \in Serials : BusyIdRequest(s)
  \/ BusyEnableAutoPing
  \/ BusyWave
  \/ Begin

SpecConnected == Init /\ [][NextConnected]_vars

\* Table limits: the clients join one row until it is full and one more is
\* tried; before or after that one client opens topic row after topic row
\* until the table is full and one more is tried; with a full table the
\* host clears the stored subscriptions or the broker restarts
LimitTopic(k) == <<96 + k>>

\* the client that opens the rows, also the last to try the shared row
LimitOpener == MAX_SUBSCRIBERS_PER_TOPIC + 1

\* the broker receives SUBSCRIBE with the topic name from clientId
SubscribeIn(clientId, topic) ==
  /\ broker' = BrokerReceive(Rx(broker), SubscribeFrames(clientId, topic), 1)
  /\ lastOp' = Op("SubscribeIn", clientId, hashTopic(topic), <<>>,
                  InRow(broker, clientId, hashTopic(topic)))
  /\ hist' = NoHistory
  /\ UNCHANGED <<esp32, clientSide>>

\* the first of the opener's topics that has no row
NextTopic(b) ==
  LET absent == {k \in 1..(MAX_SUBSCRIPTIONS + 1) :
                   FindTopicRow(b.subscriptions, hashTopic(LimitTopic(k))) = 0}
  IN CHOOSE k \in absent : \A m \in absent : k <= m

\* the first client that is not in the shared row
NextSubscriber(b) ==
  LET absent == {c \in 1..LimitOpener : ~InRow(b, c, hashTopic(LimitTopic(0)))}
  IN CHOOSE c \in absent : \A m \in absent : c <= m

\* the shared row has all its subscribers or does not exist
RowSettled(b) ==
  LET i == FindTopicRow(b.subscriptions, hashTopic(LimitTopic(0)))
  IN IF i = 0 THEN TRUE
     ELSE Len(b.subscriptions[i].subscribers) >= MAX_SUBSCRIBERS_PER_TOPIC

OpenRow ==
  /\ RowSettled(broker)
  /\ LET k == NextTopic(broker) IN SubscribeIn(LimitOpener, LimitTopic(k))

JoinRow ==
  LET c == NextSubscriber(broker) IN SubscribeIn(c, LimitTopic(0))

\* the table has all its rows and the shared row all its subscribers
AtLimit(b) ==
  /\ Len(b.subscriptions) >= MAX_SUBSCRIPTIONS
  /\ InRow(b, MAX_SUBSCRIBERS_PER_TOPIC, hashTopic(LimitTopic(0)))

ClearAtLimit ==
  /\ AtLimit(broker)
  /\ ClearStoredSubscriptions

BeginAtLimit ==
  /\ AtLimit(broker)
  /\ Begin

NextLimits ==
  \/ OpenRow
  \/ JoinRow
  \/ ClearAtLimit
  \/ BeginAtLimit

SpecLimits == Init /\ [][NextLimits]_vars

\* Leaving topics: client 1 subscribes to topic after topic, one more than
\* a stored entry holds, client 2 shares the first of them; both leave the
\* first and the last topic again; with all topics taken the host clears
\* the stored subscriptions or the broker restarts
LeaveTopics == {LimitTopic(1), LimitTopic(MAX_STORED_SUBS_PER_CLIENT + 1)}

\* the broker receives UNSUBSCRIBE from clientId for topic
UnsubscribeIn(clientId, topic) ==
  /\ broker' = BrokerReceive(Rx(broker), UnsubscribeFrames(clientId, topic), 1)
  /\ lastOp' = Op("UnsubscribeIn", clientId, hashTopic(topic), <<>>,
                  OnlyInRow(broker, clientId, hashTopic(topic)))
  /\ hist' = NoHistory
  /\ UNCHANGED <<esp32, clientSide>>

\* the first topic client 1 is not subscribed to
NextOwnTopic(b) ==
  LET absent == {k \in 1..(MAX_STORED_SUBS_PER_CLIENT + 2) :
                   ~InRow(b, 1, hashTopic(LimitTopic(k)))}
  IN CHOOSE k \in absent : \A m \in absent : k <= m

TakeTopic ==
  LET k == NextOwnTopic(broker)
  IN /\ k <= MAX_STORED_SUBS_PER_CLIENT + 1
     /\ SubscribeIn(1, LimitTopic(k))

\* client 1 holds more topics than a stored entry
AllTaken(b) == Len(b.subscriptions) > MAX_STORED_SUBS_PER_CLIENT

ClearWhenTaken ==
  /\ AllTaken(broker)
  /\ ClearStoredSubscriptions

BeginWhenTaken ==
  /\ AllTaken(broker)
  /\ Begin

NextLeave ==
  \/ TakeTopic
  \/ SubscribeIn(2, LimitTopic(1))
  \/ \E c \in {1, 2}, t \in LeaveTopics : UnsubscribeIn(c, t)
  \/ ClearWhenTaken
  \/ BeginWhenTaken

SpecLeave == Init /\ [][NextLeave]_vars

\* Unregistering: two serials register, their clients subscribe to two
\* topics in any order, the host unregisters known and unknown IDs and
\* serials
UnregisterIds == {1, 3}

UnregisterSerials == {SerialA, <<65, 49, 57>>}

\* the host calls unregisterClientBySerial(serialNumber); lastOp.a is the
\* ID the serial has in the registry, 0 without one
UnregisterClientBySerial(serialNumber) ==
  /\ broker' = unregisterClientBySerial(Rx(broker), serialNumber)
  /\ lastOp' = Op("UnregisterClientBySerial",
                  IF findClientMapping(broker, serialNumber) > 0
                  THEN broker.clientMappings[
                         findClientMapping(broker, serialNumber)].clientId
                  ELSE 0,
                  0, serialNumber, findClientMapping(broker, serialNumber) > 0)
  /\ hist' = NoHistory
  /\ UNCHANGED <<esp32, clientSide>>

NextUnregister ==
  \/ \E s \in Serials : IdRequest(s)
  \/ \E c \in {1, 2}, t \in Topics : SubscribeIn(c, t)
  \/ \E c \in UnregisterIds : UnregisterClient(c)
  \/ \E s \in UnregisterSerials : UnregisterClientBySerial(s)

SpecUnregister == Init /\ [][NextUnregister]_vars

\* Answered pings: client 1 registers and answers every ping wave with a
\* PONG that the broker handles before the next wave; a second client is
\* heard only now and then; the host sets max_missed_pings to valid values
\* and switches auto-ping
ValidMaxMissed == {1, 2, 254}

\* the broker receives the PONG of clientId
PongIn(clientId) ==
  /\ broker' = BrokerReceive(Rx(broker),
                             PongFrames(clientId, CAN_PS_BROKER_ID), 1)
  /\ lastOp' = Op("PongIn", clientId, 0, <<>>, FALSE)
  /\ hist' = [phase |-> "ponged", client |-> clientId]
  /\ UNCHANGED <<esp32, clientSide>>

\* the timer branch of loop() once the last thing heard is client 1's PONG;
\* lastOp.was: client 1 was registered and online
AnsweredWave ==
  /\ hist.phase = "ponged"
  /\ hist.client = 1
  /\ broker.autoPingEnabled
  /\ \A i \in 1..Len(broker.pingStates) :
        broker.pingStates[i].missedPings < MaxMissed
  /\ broker' = PingWave(Rx(broker))
  /\ lastOp' = Op("AnsweredWave", 0, 0, <<>>,
                  IsRegistered(broker, 1) /\ IsOnline(broker, 1))
  /\ hist' = NoHistory
  /\ UNCHANGED <<esp32, clientSide>>

NextPong ==
  \/ \E s \in Serials : IdRequest(s)
  \/ PongIn(1)
  \/ ClientFrame(2, PingFrames(2))
  \/ AnsweredWave
  \/ \E e \in BOOLEAN : EnableAutoPing(e)
  \/ \E n \in ValidMaxMissed : SetMaxMissedPings(n)

SpecPong == Init /\ [][NextPong]_vars

\* Two clients on one bus: both connect without serial to the same broker.
\* Here client and bus hold one entry per client: the client object and the
\* frames its CAN controller has queued for it. Every frame the broker sends
\* reaches both queues, and each client's ID_REQUEST reaches the broker and
\* the other client.
Peers == {1, 2}

OtherPeer(i) == 3 - i

\* frames on the bus, each with the node that sent it (0: the broker)
SentBy(frames, src) ==
  [k \in 1..Len(frames) |->
     [ext |-> frames[k].ext, id |-> frames[k].id, data |-> frames[k].data,
      src |-> src]]

\* handleDirectMessageReceived: whether on_direct_message is invoked
handleDirectMessageReceived(c, data) ==
  /\ Len(data) >= 2
  /\ data[2] = c.clientId

\* whether reading the frame invokes on_direct_message: the standard
\* DIRECT_MSG and PEER_MSG cases of handleMessage and the extended ones of
\* onExtendedMessageComplete (frames are more than 50 ms apart, so no
\* PEER_MSG counts as a repeat)
DirectCallback(c, frame) ==
  IF frame.ext
  THEN LET r == processExtendedFrame(c.extBuffer, frame, FALSE)
       IN /\ r.done
          /\ r.msgType \in {CAN_PS_DIRECT_MSG, CAN_PS_PEER_MSG}
          /\ Len(r.data) >= 1
          /\ r.data[1] = c.clientId
  ELSE /\ frame.id \in {CAN_PS_DIRECT_MSG, CAN_PS_PEER_MSG}
       /\ handleDirectMessageReceived(c, frame.data)

\* message type of a frame, standard or extended
TypeOf(frame) == IF frame.ext THEN FrameType(frame) ELSE frame.id

InitPair ==
  /\ esp32 \in BOOLEAN
  /\ broker = begin(BrokerConstructed(EmptyStore), esp32)
  /\ client = [i \in Peers |-> ClientConstructed]
  /\ bus = [i \in Peers |-> <<>>]
  /\ up = <<>>
  /\ lastOp = NoOp
  /\ hist = NoHistory

\* the application of client i calls connect() without serial; the calls
\* overlap when the other client is in connect() and neither holds an ID
PairConnect(i) ==
  /\ client[i].pc = "idle"
  /\ broker.nextTempID + Len(up) < FIRST_TEMP_ID + MaxPairAssign
  /\ client' = [client EXCEPT ![i] = connectAnonymous(@)]
  /\ up' = up \o client'[i].tx
  /\ bus' = [bus EXCEPT ![OtherPeer(i)] = @ \o SentBy(client'[i].tx, i)]
  /\ lastOp' = Op("PairConnect", i, 0, <<>>, FALSE)
  /\ hist' = IF /\ client[i].clientId = CAN_PS_UNASSIGNED_ID
                /\ client[OtherPeer(i)].pc = "connectingAnonymous"
                /\ client[OtherPeer(i)].clientId = CAN_PS_UNASSIGNED_ID
             THEN [phase |-> "overlap"]
             ELSE NoHistory
  /\ UNCHANGED brokerSide

\* client i reads one frame (loop(), or the receive loop of connect());
\* lastOp: the frame's sender and type, and whether on_direct_message ran
PairLoop(i) ==
  /\ bus[i] # <<>>
  /\ ConnectReads(client[i])
  /\ client' = [client EXCEPT
                  ![i] = [ClientHandleMessage(@, Head(bus[i])) EXCEPT !.tx = <<>>]]
  /\ bus' = [bus EXCEPT ![i] = Tail(@)]
  /\ lastOp' = Op("PairLoop", Head(bus[i]).src, TypeOf(Head(bus[i])),
                  Head(bus[i]).data, DirectCallback(client[i], Head(bus[i])))
  /\ UNCHANGED <<up, brokerSide, hist>>

\* connect() of client i returns (it holds an ID, or its time is up)
PairConnectReturn(i) ==
  /\ client[i].pc # "idle"
  /\ client' = [client EXCEPT ![i] = ConnectReturn(@)]
  /\ lastOp' = Op("PairConnectReturn", i, 0, <<>>, ConnectResult(client[i]))
  /\ UNCHANGED <<up, bus, brokerSide, hist>>

\* the application of client i calls end()
PairEnd(i) ==
  /\ client[i].pc = "idle"
  /\ client[i].connected
  /\ client' = [client EXCEPT ![i] = ClientEnd(@)]
  /\ lastOp' = Op("PairEnd", i, 0, <<>>, FALSE)
  /\ hist' = NoHistory
  /\ UNCHANGED <<up, bus, brokerSide>>

\* the broker reads one frame (loop()); what it sends reaches both clients
PairBrokerLoop ==
  /\ up # <<>>
  /\ broker' = handleMessage(Rx(broker), Head(up))
  /\ up' = Tail(up)
  /\ bus' = [i \in Peers |-> bus[i] \o SentBy(broker'.tx, CAN_PS_BROKER_ID)]
  /\ lastOp' = Op("PairBrokerLoop", 0, 0, <<>>, FALSE)
  /\ UNCHANGED <<client, esp32, hist>>

NextPair ==
  \/ \E i \in Peers : PairConnect(i)
  \/ \E i \in Peers : PairLoop(i)
  \/ \E i \in Peers : PairConnectReturn(i)
  \/ \E i \in Peers : PairEnd(i)
  \/ PairBrokerLoop

SpecPair == InitPair /\ [][NextPair]_vars

\* Overheard messages: the two clients connect by serial and send direct
\* messages to the broker, the host sends direct messages to them; every
\* frame reaches every other node on the bus
PeerSerial(i) == IF i = 1 THEN SerialA ELSE SerialB

OverheardPayloads == {<<1, 104>>, <<104, 105>>}

BusQuiet == up = <<>> /\ \A i \in Peers : bus[i] = <<>>

\* the application of client i calls connect(serial)
PairConnectSerial(i) ==
  /\ client[i].pc = "idle"
  /\ ~client[i].connected
  /\ BusQuiet
  /\ client' = [client EXCEPT ![i] = connect(@, PeerSerial(i))]
  /\ up' = up \o client'[i].tx
  /\ bus' = [bus EXCEPT ![OtherPeer(i)] = @ \o SentBy(client'[i].tx, i)]
  /\ lastOp' = Op("PairConnectSerial", i, 0, PeerSerial(i), FALSE)
  /\ UNCHANGED <<brokerSide, hist>>

\* the application of client i calls sendDirectMessage(message)
PairSendDirectMessage(i, message) ==
  /\ client[i].pc = "idle"
  /\ client[i].connected
  /\ BusQuiet
  /\ client' = [client EXCEPT ![i] = sendDirectMessage(@, message).c]
  /\ up' = up \o client'[i].tx
  /\ bus' = [bus EXCEPT ![OtherPeer(i)] = @ \o SentBy(client'[i].tx, i)]
  /\ lastOp' = Op("PairSendDirectMessage", i, 0, message, TRUE)
  /\ UNCHANGED <<brokerSide, hist>>

\* sendDirectMessage(clientId, message) of the broker
BrokerSendDirectMessage(b, clientId, message) ==
  Emit(b, SendMessage(CAN_PS_DIRECT_MSG,
                      <<CAN_PS_BROKER_ID, clientId>> \o message))

\* the host calls the broker's sendDirectMessage(clientId, message)
HostSendDirectMessage(clientId, message) ==
  /\ BusQuiet
  /\ broker' = BrokerSendDirectMessage(Rx(broker), clientId, message)
  /\ bus' = [i \in Peers |-> bus[i] \o SentBy(broker'.tx, CAN_PS_BROKER_ID)]
  /\ lastOp' = Op("HostSendDirectMessage", clientId, 0, message, FALSE)
  /\ UNCHANGED <<client, up, esp32, hist>>

NextOverhear ==
  \/ \E i \in Peers : PairConnectSerial(i)
  \/ \E i \in Peers : PairLoop(i)
  \/ \E i \in Peers : PairConnectReturn(i)
  \/ \E i \in Peers : PairEnd(i)
  \/ PairBrokerLoop
  \/ \E i \in Peers, m \in OverheardPayloads : PairSendDirectMessage(i, m)
  \/ \E c \in Peers, m \in OverheardPayloads : HostSendDirectMessage(c, m)

SpecOverhear == InitPair /\ [][NextOverhear]_vars

\* isSubscribed(topic) of the client
isSubscribed(c, topic) == hashTopic(topic) \in Range(c.subscribedTopics)

\* Client alone: it connects, subscribes and reads what brokers send
NextClient ==
  \/ \E s \in Serials : ClientConnect(s)
  \/ ClientConnectReturn
  \/ ClientLoop
  \/ \E t \in Topics : ClientSubscribe(t)
  \/ \E t \in Topics : ClientUnsubscribe(t)
  \/ ClientEndCall
  \/ \E m \in ClientInputs : BusDeliver(m)
  \/ Unheard

SpecClient == Init /\ [][NextClient]_vars

\* Client and broker on one bus (the storage build makes no difference to
\* these steps)
InitSystem == Init /\ esp32

NextSystem ==
  \/ \E s \in Serials :
       \* the device keeps the serial it first connected with
       client.serialNumber \in {<<>>, s} /\ ClientConnect(s)
  \/ ClientConnectReturn
  \/ ClientLoop
  \/ \E t \in Topics : ClientSubscribe(t)
  \/ \E t \in Topics : ClientUnsubscribe(t)
  \/ BrokerLoop
  \/ Begin

SpecSystem == InitSystem /\ [][NextSystem]_vars

\* ------------------------------------------------------------------------
\* Properties
\* ------------------------------------------------------------------------
Rows == 1..Len(broker.subscriptions)

NoDuplicateSubscriber ==
  \A i \in Rows :
    \A j, k \in 1..Len(broker.subscriptions[i].subscribers) :
      j # k => broker.subscriptions[i].subscribers[j]
               # broker.subscriptions[i].subscribers[k]

\* C1: in every reachable broker state no row of the active subscription
\* table lists the same client ID twice, and a SUBSCRIBE from a client the
\* row already lists changes neither the active table nor the stored
\* subscriptions, in memory and persisted.
C1_NoDuplicateSubscriber ==
  /\ []NoDuplicateSubscriber
  /\ [][(lastOp'.op = "Subscribe" /\ lastOp'.was)
        => /\ broker'.subscriptions = broker.subscriptions
           /\ broker'.storedSubscriptions = broker.storedSubscriptions
           /\ broker'.store.subs = broker.store.subs]_vars

\* a SUBSCRIBE arrived from a client its row already listed, and the row
\* has a second subscriber
C1_Witness ==
  /\ lastOp.op = "Subscribe"
  /\ lastOp.was
  /\ \E i \in Rows : Len(broker.subscriptions[i].subscribers) = 2

NoEmptyRow ==
  \A i \in Rows : Len(broker.subscriptions[i].subscribers) > 0

\* the rows whose only subscriber is clientId
RowsOnlyOf(b, clientId) ==
  {i \in 1..Len(b.subscriptions) : b.subscriptions[i].subscribers = <<clientId>>}

\* C2: in every reachable broker state no row of the active subscription
\* table has zero subscribers; when an UNSUBSCRIBE takes the last
\* subscriber out of a row the table has one row less, and when
\* unregisterClient does, the table has as many rows less as the client was
\* the only subscriber of.
C2_NoEmptyRow ==
  /\ []NoEmptyRow
  /\ [][/\ (lastOp'.op = "Unsubscribe" /\ lastOp'.was)
           => Len(broker'.subscriptions) = Len(broker.subscriptions) - 1
        /\ (lastOp'.op = "UnregisterClient" /\ lastOp'.was)
           => Len(broker'.subscriptions)
              = Len(broker.subscriptions)
                - Cardinality(RowsOnlyOf(broker, lastOp'.a))]_vars

\* an UNSUBSCRIBE took the last subscriber out of a row while another row
\* stayed
C2_Witness ==
  /\ lastOp.op = "Unsubscribe"
  /\ lastOp.was
  /\ Len(broker.subscriptions) = 1

\* the (topic, client) pairs of an active table, of a stored table
ActivePairs(subs) ==
  UNION {{<<subs[i].topicHash, c>> : c \in Range(subs[i].subscribers)} :
           i \in 1..Len(subs)}

StoredPairs(stored) ==
  UNION {{<<t, stored[i].clientId>> : t \in Range(stored[i].topics)} :
           i \in 1..Len(stored)}

\* C3: in every reachable broker state, every (topic, client) pair of the
\* active subscription table whose client has a registry entry is listed in
\* that client's StoredSubscriptions entry.
C3_ActiveMirroredInStored ==
  \A pair \in ActivePairs(broker.subscriptions) :
    InRegistry(broker, pair[2])
    => pair \in StoredPairs(broker.storedSubscriptions)

AnsweredId == Received(broker.tx)[1].bytes[1]

IdOfSerial(b, serialNumber) ==
  b.clientMappings[findClientMapping(b, serialNumber)].clientId

\* C5: a by-serial ID_REQUEST for a serial the registry holds is answered
\* with the ID the registry holds for it, marks that entry registered and
\* adds no entry; the ID a serial is bound to stays the same for as long as
\* the registry holds the serial, across requests, unregisters and
\* restarts, and a restart keeps every binding; the registry grows only on
\* a request for a serial it did not hold.
C5_KnownSerialKeepsId ==
  [][/\ (lastOp'.op = "IdRequest" /\ lastOp'.was)
        => LET sn == lastOp'.p
               index == findClientMapping(broker, sn)
           IN /\ Len(Received(broker'.tx)) >= 1
              /\ Received(broker'.tx)[1].type = CAN_PS_ID_RESPONSE
              /\ Received(broker'.tx)[1].bytes[1] = IdOfSerial(broker, sn)
              /\ broker'.clientMappings =
                   [broker.clientMappings EXCEPT ![index].registered = TRUE]
              /\ broker'.nextClientID = broker.nextClientID
     /\ \A sn \in Serials :
          (findClientMapping(broker, sn) > 0 /\ findClientMapping(broker', sn) > 0)
          => IdOfSerial(broker', sn) = IdOfSerial(broker, sn)
     /\ lastOp'.op = "Begin"
        => \A sn \in Serials :
             findClientMapping(broker, sn) > 0
             => findClientMapping(broker', sn) > 0
     /\ Len(broker'.clientMappings) > Len(broker.clientMappings)
        => (lastOp'.op = "IdRequest" /\ ~lastOp'.was)]_vars

\* the second serial asked again after a restart and got ID 2 back: it is
\* the only client connected since
C5_Witness ==
  /\ lastOp.op = "IdRequest"
  /\ lastOp.was
  /\ lastOp.p = SerialB
  /\ AnsweredId = 2
  /\ broker.connectedClients = <<2>>

\* C6: when a client whose serial is S (not empty) reads the frame that
\* completes an ID_RESPONSE, short or extended, echoing a serial other
\* than S, its client ID, connected flag, local subscription list and topic
\* cache stay as they were.
C6_ForeignIdResponseIgnored ==
  [][(lastOp'.op = "ClientLoop" /\ lastOp'.was)
     => /\ client'.clientId = client.clientId
        /\ client'.connected = client.connected
        /\ client'.subscribedTopics = client.subscribedTopics
        /\ client'.topicMappings = client.topicMappings]_vars

\* a connected client with a subscription read an extended ID_RESPONSE for
\* another serial that names another ID than its own
C6_Witness ==
  /\ lastOp.op = "ClientLoop"
  /\ lastOp.was
  /\ Len(lastOp.p) > CAN_FRAME_DATA_SIZE
  /\ client.connected
  /\ client.clientId = 1
  /\ Len(client.subscribedTopics) > 0

\* C7: in every reachable broker state no ID of the temporary range has an
\* entry in the registry or in StoredSubscriptions.
C7_TemporaryIdsNotStored ==
  \A id \in FIRST_TEMP_ID..254 :
    /\ findClientMappingById(broker, id) = 0
    /\ findStoredSubscription(broker, id) = 0

\* the messages after the first one the broker's last handler sent
Restores == Tail(Received(broker.tx))

\* the topic hash field of a SUB_RESTORE as received
RestoredTopic(m) == HashOf(m.bytes[2], m.bytes[3])

\* the broker answered the followed request: its handler sent ID_RESPONSE
\* with the ID and has_stored_subs = 1, then one SUB_RESTORE for that ID per
\* stored topic and nothing else
AnswerCarriesRestores ==
  (lastOp.op = "BrokerLoop" /\ lastOp.was)
  => /\ Len(Received(broker.tx)) = 1 + Cardinality(hist.topics)
     /\ Received(broker.tx)[1].type = CAN_PS_ID_RESPONSE
     /\ Received(broker.tx)[1].bytes[1] = hist.id
     /\ Received(broker.tx)[1].bytes[2] = 1
     /\ \A k \in 1..Len(Restores) :
          /\ Restores[k].type = CAN_PS_SUB_RESTORE
          /\ Restores[k].bytes[1] = hist.id
     /\ {RestoredTopic(Restores[k]) : k \in 1..Len(Restores)} = hist.topics

\* the client holds the ID, its local list is the stored topics, each once,
\* and the active table lists it in the row of each
ClientHoldsStoredTopics ==
  /\ client.clientId = hist.id
  /\ client.connected
  /\ Range(client.subscribedTopics) = hist.topics
  /\ Len(client.subscribedTopics) = Cardinality(hist.topics)
  /\ \A t \in hist.topics : InRow(broker, hist.id, t)

StoredTopicsIn(stored, clientId) ==
  {pair[1] : pair \in {q \in StoredPairs(stored) : q[2] = clientId}}

ActiveTopicsIn(subs, clientId) ==
  {pair[1] : pair \in {q \in ActivePairs(subs) : q[2] = clientId}}

C10_PeerForwardNeedsBothRegistered ==
  lastOp.op = "PeerMessage"
  => IF lastOp.was
     THEN Received(broker.tx)
          = <<[type |-> CAN_PS_PEER_MSG,
               bytes |-> <<lastOp.a, lastOp.b>> \o lastOp.p]>>
     ELSE broker.tx = <<>>

\* an extended PEER_MSG between two different registered IDs was forwarded
C10_Witness ==
  /\ lastOp.op = "PeerMessage"
  /\ lastOp.was
  /\ lastOp.a # lastOp.b
  /\ Len(lastOp.p) > CAN_FRAME_DATA_SIZE - 2
  /\ Len(broker.tx) = 2

\* ------------------------------------------------------------------------
\* Keepalive
\* ------------------------------------------------------------------------
\* c was online when last heard, is registered, and as many ping waves as
\* max_missed_pings have passed since without a frame from it
SilentTooLong(c) ==
  /\ hist.online[c]
  /\ broker.autoPingEnabled
  /\ IsRegistered(broker, c)
  /\ hist.waves[c] >= broker.maxMissedPings

\* C11: with auto-ping enabled and max_missed_pings = N, an online
\* registered client from which no frame arrived during N consecutive ping
\* waves is no longer in the connected list and the disconnect callback ran
\* for it exactly once since it was last heard, however many more waves
\* pass; a ping wave changes neither the registry nor the stored
\* subscriptions nor the persisted store.
C11_SilentClientDisconnectedOnce ==
  /\ [](hist.phase = "outage"
        => \A c \in PingClients :
             /\ hist.fired[c] <= 1
             /\ SilentTooLong(c)
                => ~IsOnline(broker, c) /\ hist.fired[c] = 1)
  /\ [][lastOp'.op = "Wave"
        => /\ broker'.clientMappings = broker.clientMappings
           /\ broker'.storedSubscriptions = broker.storedSubscriptions
           /\ broker'.store = broker.store]_vars

\* client 1, holding a stored subscription, went silent with N = 2; the
\* wave after the one that removed it has passed
C11_Witness ==
  /\ hist.phase = "outage"
  /\ lastOp.op = "Wave"
  /\ broker.maxMissedPings = 2
  /\ SilentTooLong(1)
  /\ hist.waves[1] = 3
  /\ hist.fired[1] = 1
  /\ Len(broker.clientMappings) = 2

\* C12: with auto-ping enabled, when the broker has handled a message from
\* a client that has a ping state (SUBSCRIBE, UNSUBSCRIBE, PUBLISH,
\* DIRECT_MSG, PEER_MSG, PING, PONG, or a by-serial ID_REQUEST answered with
\* that client's ID, in standard or extended frames), the client's
\* missed_pings is 0.
C12_AnyFrameResetsMissedPings ==
  /\ (lastOp.op = "ClientFrame" /\ broker.autoPingEnabled)
     => MissedPings(broker, lastOp.a) = 0
  /\ (lastOp.op = "IdRequest" /\ broker.autoPingEnabled)
     => \A i \in 1..Len(broker.clientMappings) :
          broker.clientMappings[i].serialNumber = lastOp.p
          => MissedPings(broker, broker.clientMappings[i].clientId) = 0

\* the message came from a client whose ping state counted missed pings
C12_Witness ==
  /\ lastOp.op = "ClientFrame"
  /\ lastOp.was
  /\ broker.autoPingEnabled
  /\ findPingState(broker, lastOp.a) > 0
  /\ Len(broker.tx) > 1

\* ------------------------------------------------------------------------
\* Frame codec
\* ------------------------------------------------------------------------
\* C13: for every payload p of 9..128 bytes, when the frames
\* sendExtendedMessage(type, p) produces are delivered in order, none later
\* than the reassembly timeout after the one before, the completion handler
\* is called exactly once, after the last frame, with msg_type = type,
\* sender_id = p[0] and data = the remaining bytes of p, and the reassembly
\* buffer is inactive afterwards.
C13_ExtendedMessageRoundTrip ==
  (hist.phase = "codec" /\ ~hist.late)
  => /\ up # <<>> => hist.got = <<>>
     /\ up = <<>>
        => /\ hist.got = <<[msgType |-> hist.type,
                            senderId |-> hist.payload[1],
                            data |-> Tail(hist.payload)]>>
           /\ ~hist.buf.active

\* the last of the 16 frames of a 128-byte message has been delivered
C13_Witness ==
  /\ hist.phase = "codec"
  /\ ~hist.late
  /\ lastOp.op = "CodecDeliver"
  /\ up = <<>>
  /\ Len(hist.payload) = MAX_EXTENDED_MSG_SIZE
  /\ Len(hist.got) = 1
  /\ Len(hist.got[1].data) = MAX_EXTENDED_MSG_SIZE - 1

\* ------------------------------------------------------------------------
\* Persistence
\* ------------------------------------------------------------------------
\* C14: whatever operations ran before, begin() reloads the registry
\* (entries and next_client_id), the stored subscriptions and the ping
\* configuration as they were in memory just before the restart.
C14_BeginReloadsMemory ==
  [][lastOp'.op = "Begin"
     => /\ broker'.clientMappings = broker.clientMappings
        /\ broker'.nextClientID = broker.nextClientID
        /\ broker'.storedSubscriptions = broker.storedSubscriptions
        /\ broker'.autoPingEnabled = broker.autoPingEnabled
        /\ broker'.pingInterval = broker.pingInterval
        /\ broker'.maxMissedPings = broker.maxMissedPings]_vars

\* ------------------------------------------------------------------------
\* Topic names
\* ------------------------------------------------------------------------
\* C15: for every topic hash that has an entry in the runtime topic-name
\* cache and an active entry in the stored topic-name table, the two entries
\* hold the same name.
C15_TopicNamesAgree ==
  \A i \in 1..Len(broker.topicMappings) :
    \A j \in 1..broker.storedTopicCount :
      (/\ TopicSlot(broker, j).active
       /\ TopicSlot(broker, j).hash = broker.topicMappings[i].hash)
      => TopicSlot(broker, j).name = broker.topicMappings[i].name

C17_FullRegistryRejects ==
  [][(/\ lastOp'.op = "RegisterClient"
      /\ Len(broker.clientMappings) = MAX_CLIENT_MAPPINGS
      /\ findClientMapping(broker, lastOp'.p) = 0)
     => /\ lastOp'.b = CAN_PS_UNASSIGNED_ID
        /\ broker'.clientMappings = broker.clientMappings
        /\ broker'.nextClientID = broker.nextClientID
        /\ broker'.store.reg = broker.store.reg]_vars

\* an unknown serial was refused by a registry of 50 entries, the last of
\* which got ID 50
C17_Witness ==
  /\ lastOp.op = "RegisterClient"
  /\ lastOp.a = MAX_CLIENT_MAPPINGS
  /\ ~lastOp.was
  /\ lastOp.b = CAN_PS_UNASSIGNED_ID
  /\ Len(broker.clientMappings) = MAX_CLIENT_MAPPINGS
  /\ broker.clientMappings[MAX_CLIENT_MAPPINGS].clientId = MAX_CLIENT_MAPPINGS
  /\ broker.store.reg.count = MAX_CLIENT_MAPPINGS

\* C18: no two registry entries hold the same serial; registering a serial
\* the registry holds returns the ID of its entry and adds none; and
\* updateClientSerial to a serial the registry holds returns false and
\* changes nothing.
C18_SerialsUnique ==
  /\ [](\A i, j \in 1..Len(broker.clientMappings) :
          broker.clientMappings[i].serialNumber
            = broker.clientMappings[j].serialNumber => i = j)
  /\ [][(lastOp'.op = "RegisterClient" /\ lastOp'.was)
        => /\ lastOp'.b = IdOfSerial(broker, lastOp'.p)
           /\ Len(broker'.clientMappings) = Len(broker.clientMappings)]_vars
  /\ [][(/\ lastOp'.op = "UpdateClientSerial"
          /\ findClientMapping(broker, lastOp'.p) > 0)
        => /\ ~lastOp'.was
           /\ broker'.clientMappings = broker.clientMappings
           /\ broker'.store = broker.store]_vars

\* ------------------------------------------------------------------------
\* Client sessions
\* ------------------------------------------------------------------------
\* C19: connect(), with or without serial, returns false when the client
\* took no ID_RESPONSE as its own between the call and the return, also
\* when the client still holds the ID of an earlier session.
C19_ConnectFalseWithoutAnswer ==
  (/\ lastOp.op = "ClientConnectReturn"
   /\ hist.phase = "requested"
   /\ ~hist.heard)
  => ~lastOp.was

\* the six operations a client sends frames with
ClientSendOps ==
  {"ClientSubscribe", "ClientUnsubscribe", "ClientPublish",
   "ClientSendDirectMessage", "ClientSendPeerMessage", "ClientPing"}

\* C20: a client that is not connected sends nothing in subscribe,
\* unsubscribe, publish, sendDirectMessage, sendPeerMessage and ping and
\* they return false; isConnected() is false after a connect() that returned
\* false and after end().
C20_NotConnectedNoIO ==
  /\ [][(lastOp'.op \in ClientSendOps /\ ~client.connected)
        => /\ ~lastOp'.was
           /\ client'.tx = <<>>
           /\ up' = up]_vars
  /\ []((lastOp.op = "ClientConnectReturn" /\ ~lastOp.was)
        => ~client.connected)
  /\ [](lastOp.op = "ClientEnd" => ~client.connected)

RegistryHeld(b) == <<b.store.reg, b.clientMappings, b.nextClientID>>

SubscriptionsHeld(b) == <<b.store.subs, b.storedSubscriptions>>

TopicNamesHeld(b) ==
  <<b.store.topics, b.storedTopicNames, b.storedTopicCount>>

PingConfigHeld(b) ==
  <<b.store.ping, b.autoPingEnabled, b.pingInterval, b.maxMissedPings>>

\* C22: clearStoredMappings, clearStoredSubscriptions, clearStoredTopicNames
\* and clearStoredPingConfig each leave the persisted and in-memory contents
\* of the other three namespaces as they were.
C22_ClearsAreIndependent ==
  [][/\ lastOp'.op = "ClearStoredMappings"
        => /\ SubscriptionsHeld(broker') = SubscriptionsHeld(broker)
           /\ TopicNamesHeld(broker') = TopicNamesHeld(broker)
           /\ PingConfigHeld(broker') = PingConfigHeld(broker)
     /\ lastOp'.op = "ClearStoredSubscriptions"
        => /\ RegistryHeld(broker') = RegistryHeld(broker)
           /\ TopicNamesHeld(broker') = TopicNamesHeld(broker)
           /\ PingConfigHeld(broker') = PingConfigHeld(broker)
     /\ lastOp'.op = "ClearStoredTopicNames"
        => /\ RegistryHeld(broker') = RegistryHeld(broker)
           /\ SubscriptionsHeld(broker') = SubscriptionsHeld(broker)
           /\ PingConfigHeld(broker') = PingConfigHeld(broker)
     /\ lastOp'.op = "ClearStoredPingConfig"
        => /\ RegistryHeld(broker') = RegistryHeld(broker)
           /\ SubscriptionsHeld(broker') = SubscriptionsHeld(broker)
           /\ TopicNamesHeld(broker') = TopicNamesHeld(broker)]_vars

\* ------------------------------------------------------------------------
\* Ping configuration
\* ------------------------------------------------------------------------
\* C23: in every reachable broker state 1 <= ping interval < 3,600,000 ms
\* and max_missed_pings is in 1..254, whatever the setters are given and
\* whatever the store holds.
C23_PingConfigValid ==
  /\ broker.pingInterval >= 1
  /\ broker.pingInterval < MAX_PING_INTERVAL
  /\ broker.maxMissedPings \in 1..254

C25_GapDiscardsMessage ==
  /\ [][(lastOp'.op = "CodecDeliver" /\ lastOp'.was)
        => /\ ~hist'.buf.active
           /\ hist'.got = hist.got]_vars
  /\ [][(/\ lastOp'.op = "CodecDeliver"
         /\ ~hist.buf.active
         /\ up # <<>>
         /\ FrameSeq(Head(up)) > 0)
        => /\ ~hist'.buf.active
           /\ hist'.got = hist.got]_vars
  /\ []((hist.phase = "codec" /\ hist.late) => hist.got = <<>>)

\* every frame of a message of three or more frames was read, one of them
\* after a gap, and nothing was handed over
C25_Witness ==
  /\ hist.phase = "codec"
  /\ hist.late
  /\ Len(hist.payload) > 2 * CAN_FRAME_DATA_SIZE
  /\ lastOp.op = "CodecDeliver"
  /\ ~lastOp.was
  /\ up = <<>>
  /\ hist.got = <<>>

\* ------------------------------------------------------------------------
\* Publishing
\* ------------------------------------------------------------------------
\* the subscribers of a topic, in row order (none without a row)
SubscribersOf(b, topicHash) ==
  LET i == FindTopicRow(b.subscriptions, topicHash)
  IN IF i = 0 THEN <<>> ELSE b.subscriptions[i].subscribers

\* the calls of one callback a handler made
CallsOf(b, cb) == SelectSeq(b.calls, LAMBDA c : c.cb = cb)

\* C26: a PUBLISH, standard or reassembled, calls on_publish once with the
\* topic hash and the payload, and sends one TOPIC_DATA with that hash and
\* payload to each client in the topic's row, none to any other client and
\* none when the topic has no row.
C26_PublishForwardedOnce ==
  [][lastOp'.op = "Publish"
     => LET topicHash == lastOp'.b
            message == lastOp'.p
            row == SubscribersOf(broker, topicHash)
            out == Received(broker'.tx)
            published == CallsOf(broker', "publish")
        IN /\ Len(published) = 1
           /\ published[1].id = topicHash
           /\ published[1].arg[2] = message
           /\ \A j \in 1..Len(out) :
                 /\ out[j].type = CAN_PS_TOPIC_DATA
                 /\ Drop(out[j].bytes, 1)
                      = <<HashHi(topicHash), HashLo(topicHash)>> \o message
                 /\ out[j].bytes[1] \in Range(row)
           /\ \A c \in Range(row) :
                 Cardinality({j \in 1..Len(out) : out[j].bytes[1] = c}) = 1]_vars

\* a reassembled PUBLISH was forwarded to the two subscribers of its topic
C26_Witness ==
  /\ lastOp.op = "Publish"
  /\ Len(lastOp.p) = 3 * CAN_FRAME_DATA_SIZE
  /\ Len(SubscribersOf(broker, lastOp.b)) = 2
  /\ Len(Received(broker.tx)) = 2

\* ------------------------------------------------------------------------
\* Subscriber order
\* ------------------------------------------------------------------------
\* c1 comes before c2 in a row
Before(row, c1, c2) ==
  \E i \in 1..Len(row), j \in 1..Len(row) :
     i < j /\ row[i] = c1 /\ row[j] = c2

\* a SUBSCRIBE adds at most one subscriber, at the end of the row; an
\* UNSUBSCRIBE takes at most one out and leaves the others in their order;
\* a PUBLISH leaves the row alone and sends TOPIC_DATA in row order
RowOrderKept ==
  LET row == SubscribersOf(broker, hashTopic(TopicX))
      rowAfter == SubscribersOf(broker', hashTopic(TopicX))
      out == Received(broker'.tx)
  IN /\ lastOp'.op = "Subscribe"
        => \/ rowAfter = row
           \/ \E c \in 1..254 : c \notin Range(row) /\ rowAfter = Append(row, c)
     /\ lastOp'.op = "Unsubscribe"
        => \/ rowAfter = row
           \/ \E k \in 1..Len(row) : rowAfter = RemoveAt(row, k)
     /\ lastOp'.op = "Publish"
        => /\ rowAfter = row
           /\ Len(out) = Len(row)
           /\ \A j \in 1..Len(row) : out[j].bytes[1] = row[j]

\* C27 as stated: TOPIC_DATA goes out in the order in which the current
\* subscribers subscribed; removals of others and the rebuild of the table
\* by begin() keep that order.
C27_SubscriptionOrderSurvivesRestart ==
  [][/\ RowOrderKept
     /\ lastOp'.op = "Begin"
        => LET row == SubscribersOf(broker, hashTopic(TopicX))
               rowAfter == SubscribersOf(broker', hashTopic(TopicX))
           IN \A c1 \in Range(rowAfter), c2 \in Range(rowAfter) :
                 Before(row, c1, c2) => Before(rowAfter, c1, c2)]_vars

\* C27: TOPIC_DATA goes out in row order.  Between restarts that is the
\* order in which the current subscribers subscribed, and removals of
\* others keep it; the table begin() rebuilds lists the subscribers of a
\* topic in the order of the clients' stored entries instead.
C27_ForwardInRowOrder ==
  [][/\ RowOrderKept
     /\ lastOp'.op = "Begin"
        => LET rowAfter == SubscribersOf(broker', hashTopic(TopicX))
           IN \A c1 \in Range(rowAfter), c2 \in Range(rowAfter) :
                 Before(rowAfter, c1, c2)
                 => findStoredSubscription(broker', c1)
                      < findStoredSubscription(broker', c2)]_vars

\* a message went to client 3 and then to client 1, the order in which they
\* had subscribed
C27_Witness ==
  /\ lastOp.op = "Publish"
  /\ SubscribersOf(broker, hashTopic(TopicX)) = <<3, 1>>
  /\ Len(Received(broker.tx)) = 2
  /\ Received(broker.tx)[1].bytes[1] = 3

\* ------------------------------------------------------------------------
\* Direct messages
\* ------------------------------------------------------------------------
\* the ACK frames among the frames a handler sent
AcksIn(frames) ==
  SelectSeq(frames,
            LAMBDA f : IF f.ext THEN FrameType(f) = CAN_PS_ACK
                       ELSE f.id = CAN_PS_ACK)

\* C28: a DIRECT_MSG from a client, standard or reassembled, calls
\* on_direct_message once with the sender's ID and the payload and is
\* answered with one ACK [0x00][sender]"ACK"; nothing else the broker
\* handles makes it send an ACK.
C28_DirectMessageAcked ==
  [][IF lastOp'.op = "Direct"
     THEN /\ CallsOf(broker', "direct")
               = <<[cb |-> "direct", id |-> lastOp'.a, arg |-> lastOp'.p]>>
          /\ AcksIn(broker'.tx)
               = <<StdFrame(CAN_PS_ACK,
                            <<CAN_PS_BROKER_ID, lastOp'.a, 65, 67, 75>>)>>
     ELSE /\ AcksIn(broker'.tx) = <<>>
          /\ CallsOf(broker', "direct") = <<>>]_vars

\* a reassembled DIRECT_MSG of an unregistered client was acknowledged
C28_Witness ==
  /\ lastOp.op = "Direct"
  /\ lastOp.a = 3
  /\ Len(lastOp.p) = 3 * CAN_FRAME_DATA_SIZE
  /\ Len(AcksIn(broker.tx)) = 1

\* ------------------------------------------------------------------------
\* Connected set and its callbacks
\* ------------------------------------------------------------------------
\* the ids a handler called callback cb for
CalledIds(b, cb) == { c.id : c \in Range(CallsOf(b, cb)) }

\* C29: between two begin() calls on_client_connect(id) is called exactly
\* when id enters the connected set and on_client_disconnect(id) exactly
\* when it leaves it (so the two alternate per id, connect first); the set
\* never holds an id twice, so getClientCount() is the number of ids that
\* isClientOnline reports.
C29_CallbacksFollowConnectedSet ==
  /\ [][lastOp'.op # "Begin"
        => LET before == Range(broker.connectedClients)
               after == Range(broker'.connectedClients)
               entered == after \ before
               left == before \ after
           IN /\ CalledIds(broker', "connect") = entered
              /\ Len(CallsOf(broker', "connect")) = Cardinality(entered)
              /\ CalledIds(broker', "disconnect") = left
              /\ Len(CallsOf(broker', "disconnect")) = Cardinality(left)]_vars
  /\ [](Cardinality(Range(broker.connectedClients))
          = Len(broker.connectedClients))

\* ------------------------------------------------------------------------
\* Limits of the active subscription table
\* ------------------------------------------------------------------------
\* SUBSCRIBE of clientId for topicHash would exceed a limit of the table
ExceedsLimit(b, clientId, topicHash) ==
  LET i == FindTopicRow(b.subscriptions, topicHash)
  IN IF i > 0
     THEN /\ clientId \notin Range(b.subscriptions[i].subscribers)
          /\ Len(b.subscriptions[i].subscribers) >= MAX_SUBSCRIBERS_PER_TOPIC
     ELSE Len(b.subscriptions) >= MAX_SUBSCRIPTIONS

TableWithinLimits(b) ==
  /\ Len(b.subscriptions) <= MAX_SUBSCRIPTIONS
  /\ \A i \in 1..Len(b.subscriptions) :
       Len(b.subscriptions[i].subscribers) <= MAX_SUBSCRIBERS_PER_TOPIC

\* C30: the active table never holds more than 20 rows nor more than 10
\* subscribers in a row; a SUBSCRIBE that would exceed either limit leaves
\* the active table and the client's stored topic set, in memory and in
\* the store, as they were and sends nothing.
C30_OverflowDropped ==
  /\ [][lastOp'.op = "SubscribeIn"
          /\ ExceedsLimit(broker, lastOp'.a, lastOp'.b)
        => /\ broker'.subscriptions = broker.subscriptions
           /\ StoredTopics(broker', lastOp'.a) = StoredTopics(broker, lastOp'.a)
           /\ StoredTopicsIn(broker'.store.subs.subs, lastOp'.a)
                = StoredTopicsIn(broker.store.subs.subs, lastOp'.a)
           /\ broker'.tx = <<>>]_vars
  /\ [](TableWithinLimits(broker))

RowsWithout(subs, clientId) ==
  LET stripped == [i \in 1..Len(subs) |->
                     [subs[i] EXCEPT !.subscribers =
                        SelectSeq(@, LAMBDA x : x # clientId)]]
  IN SelectSeq(stripped, LAMBDA r : Len(r.subscribers) > 0)

\* the broker apart from the registry, the rows, the stored subscriptions
\* and their persisted copies
ApartFromClients(b) ==
  [b EXCEPT !.clientMappings = <<>>, !.subscriptions = <<>>,
            !.storedSubscriptions = <<>>,
            !.store = [@ EXCEPT !.reg = EmptyStore.reg,
                                !.subs = EmptyStore.subs]]

\* the clients that have a stored entry
StoredClients(b) ==
  {b.storedSubscriptions[i].clientId : i \in 1..Len(b.storedSubscriptions)}

\* b2 is b after the registry entry at index was unregistered
UnregisteredAt(b, b2, index) ==
  LET clientId == b.clientMappings[index].clientId
  IN /\ b2.clientMappings = [b.clientMappings EXCEPT ![index].registered = FALSE]
     /\ b2.store.reg.valid
     /\ b2.store.reg.maps = b2.clientMappings
     /\ b2.subscriptions = RowsWithout(b.subscriptions, clientId)
     /\ StoredTopics(b2, clientId) = {}
     /\ StoredTopicsIn(b2.store.subs.subs, clientId) = {}
     /\ \A other \in StoredClients(b) \cup StoredClients(b2) :
          other # clientId => StoredTopics(b2, other) = StoredTopics(b, other)
     /\ ApartFromClients(b2) = ApartFromClients(Rx(b))
     /\ findOrCreateClientId(b2, b.clientMappings[index].serialNumber).id
          = clientId

\* C32: unregisterClient / unregisterClientBySerial of a known ID or serial
\* sets registered = false (persisted), takes the client out of every row
\* and empties its stored topic set; the entry's ID and serial, the other
\* clients' rows, their order and stored sets and the rest of the broker
\* stay, and registering the entry's serial again returns the same ID.
\* For an unknown ID or serial nothing changes.
C32_UnregisterFrame ==
  /\ [][lastOp'.op = "UnregisterClient"
        => LET index == findClientMappingById(broker, lastOp'.a)
           IN IF index > 0 THEN UnregisteredAt(broker, broker', index)
              ELSE broker' = Rx(broker)]_vars
  /\ [][lastOp'.op = "UnregisterClientBySerial"
        => LET index == findClientMapping(broker, lastOp'.p)
           IN IF index > 0 THEN UnregisteredAt(broker, broker', index)
              ELSE broker' = Rx(broker)]_vars

\* client 1 was unregistered while it shared a row with client 2 and had a
\* row of its own
C32_Witness ==
  /\ lastOp.op \in {"UnregisterClient", "UnregisterClientBySerial"}
  /\ lastOp.a = 1
  /\ lastOp.was
  /\ Len(broker.subscriptions) = 1
  /\ InRow(broker, 2, broker.subscriptions[1].topicHash)

\* ------------------------------------------------------------------------
\* A client that answers every ping
\* ------------------------------------------------------------------------
\* C33: with auto-ping enabled and max_missed_pings in 1..254, a registered
\* client whose PONG to every ping wave is handled before the next wave
\* never leaves the connected set, and on_client_disconnect is never called
\* for it.
C33_ResponsiveClientStaysOnline ==
  [][IsOnline(broker, 1) /\ IsRegistered(broker, 1)
     => /\ IsOnline(broker', 1)
        /\ 1 \notin CalledIds(broker', "disconnect")]_vars

\* ------------------------------------------------------------------------
\* A client's ID and other devices' ID_RESPONSE frames
\* ------------------------------------------------------------------------
\* C34: a client that connected by serial, holds a permanent ID and is not
\* inside connect() keeps that ID when it reads a frame that does not echo
\* its own serial: the answer to another device's request, an anonymous
\* ID_RESPONSE in particular, never changes it.
C34_IdKeptOutsideConnect ==
  [][/\ lastOp'.op = "ClientLoop"
     /\ lastOp'.p # client.serialNumber
     /\ client.pc = "idle"
     /\ client.connected
     /\ client.serialNumber # <<>>
     /\ client.clientId \in 1..(FIRST_TEMP_ID - 1)
     /\ client.clientId # CAN_PS_UNASSIGNED_ID
     => client'.clientId = client.clientId]_vars

\* ------------------------------------------------------------------------
\* Two anonymous clients connecting at the same time
\* ------------------------------------------------------------------------
\* both clients are back from overlapping connect() calls and connected
BothConnectedAfterOverlap ==
  /\ hist.phase = "overlap"
  /\ \A i \in Peers : client[i].pc = "idle" /\ client[i].connected

\* C35: two clients without serial whose connect() calls overlapped, both
\* ID_REQUESTs sent before either client processed an ID_RESPONSE, hold
\* different client IDs once both calls have returned.
C35_OverlappingConnectsDiffer ==
  BothConnectedAfterOverlap => client[1].clientId # client[2].clientId

\* ------------------------------------------------------------------------
\* Reassembly: senders of one type, lost and repeated frames
\* ------------------------------------------------------------------------
\* C36: every completed extended message handed to the handler is the
\* payload of one message that one sender sent, its first byte as sender and
\* the rest as data: no frames of two senders mixed, none skipped, repeated
\* or reordered.
C36_DeliveredIsOneMessage ==
  hist.phase = "interleave"
  => \A i \in 1..Len(hist.got) :
        \E k \in 1..Len(hist.sent) :
           /\ hist.got[i].msgType = hist.sent[k].type
           /\ hist.got[i].senderId = hist.sent[k].payload[1]
           /\ hist.got[i].data =
                Take(Tail(hist.sent[k].payload), MAX_EXTENDED_MSG_SIZE)

\* ------------------------------------------------------------------------
\* The client's local subscription list
\* ------------------------------------------------------------------------
\* C37: after unsubscribe(t) has returned true, isSubscribed(t) is false,
\* whatever subscribe and unsubscribe calls came before, and the local list
\* holds no topic hash twice and at most MAX_CLIENT_TOPICS entries.
C37_UnsubscribeForgetsTopic ==
  /\ [][(lastOp'.op = "ClientUnsubscribe" /\ lastOp'.was)
        => ~isSubscribed(client', TopicX)]_vars
  /\ [](/\ Len(client.subscribedTopics) <= MAX_CLIENT_TOPICS
        /\ \A i, j \in 1..Len(client.subscribedTopics) :
              client.subscribedTopics[i] = client.subscribedTopics[j] => i = j)

\* ------------------------------------------------------------------------
\* A new identity and subscriptions stored under its number
\* ------------------------------------------------------------------------
\* C38: the by-serial handshake of a serial the registry does not hold is
\* answered with one ID_RESPONSE whose has_stored_subs is 0 and with no
\* SUB_RESTORE, whatever is stored under the numeric ID the serial receives.
C38_NewIdentityInheritsNothing ==
  [][(lastOp'.op = "IdRequest" /\ ~lastOp'.was)
     => LET answer == Received(broker'.tx)
        IN /\ Len(answer) = 1
           /\ answer[1].type = CAN_PS_ID_RESPONSE
           /\ answer[1].bytes[2] = 0]_vars

\* ------------------------------------------------------------------------
\* Direct messages overheard on the bus
\* ------------------------------------------------------------------------
\* both clients connected by serial and hold the IDs of their own serials
BothRegistered ==
  \A i \in Peers :
     /\ client[i].connected
     /\ client[i].serialNumber = PeerSerial(i)
     /\ client[i].clientId = IdOfSerial(broker, PeerSerial(i))

\* C39: between two clients that connected by serial and hold different
\* IDs, a client's on_direct_message callback runs only when the frame it
\* read is a DIRECT_MSG that the broker sent or a PEER_MSG: a DIRECT_MSG
\* that the other client sent to the broker never invokes it.
C39_DirectCallbackOnlyFromBroker ==
  (lastOp.op = "PairLoop" /\ lastOp.was /\ BothRegistered)
  => \/ lastOp.a = CAN_PS_BROKER_ID
     \/ lastOp.b = CAN_PS_PEER_MSG

\* ------------------------------------------------------------------------
\* The registry's IDs
\* ------------------------------------------------------------------------
\* C40: no two registry entries hold the same client ID, and every ID in
\* the registry is a permanent one, from 1 to 100.
C40_RegistryIdsUniquePermanent ==
  /\ \A i, j \in 1..Len(broker.clientMappings) :
        broker.clientMappings[i].clientId = broker.clientMappings[j].clientId
        => i = j
  /\ \A i \in 1..Len(broker.clientMappings) :
        broker.clientMappings[i].clientId \in 1..(FIRST_TEMP_ID - 1)

\* a serial was just renamed in a registry of several entries, one of them
\* unregistered
C40_Witness ==
  /\ lastOp.op = "UpdateClientSerial"
  /\ lastOp.was
  /\ Len(broker.clientMappings) >= 2
  /\ \E i \in 1..Len(broker.clientMappings) :
        ~broker.clientMappings[i].registered

====
